---- MODULE Spec2Model ----
(***************************************************************************)
(* Model of the streemm post-upload processing pipeline                    *)
(* (apps/api/worker.py), its notifier (apps/api/notifier.py) and the two   *)
(* HTTP handlers that feed and disturb it (finalize_video and delete_video *)
(* in apps/api/routes_videos.py).                                          *)
(*                                                                         *)
(* Redis is modelled as reliable: every command of cache.redis_client      *)
(* returns.  A Redis list is a sequence whose head is the left end, so     *)
(* LPUSH prepends and BRPOP takes the last element.  A key with a TTL is   *)
(* modelled by two levels of remaining life (2 fresh, 1 aged): a tick of   *)
(* the clock ages it, a second tick without a re-arm removes the key.      *)
(***************************************************************************)
EXTENDS Integers, Sequences, FiniteSets, TLC

\* ------------------------------------------------------------- bounds
MaxFinalize == 2      \* calls of POST /videos (finalize) over a run
MaxDelete == 1        \* calls of DELETE /videos/{id} over a run
MaxEmailJobs == 2     \* video_ready jobs in q:emails at the start of SpecNotify

\* ---------------------------------------------------------- constants
Videos == {"v1"}
Workers == {"w1", "w2"}
Notifiers == {"n1", "n2"}
None == "none"
NoRow == [status |-> "absent", error |-> None, notified_at |-> 0]

\* settings.worker_backoff_seconds, the default "30,120,300"
worker_backoff_seconds == <<30, 120, 300>>

\* the three objects a ready video needs, by their deterministic keys
RequiredObjects == {"hls720", "hls480", "poster"}
AllObjects == RequiredObjects \cup {"raw"}

\* the files upload_dir puts under hls/{video_id}/{label}: the playlist
\* index.m3u8 and the segments seg_%03d.ts (one key stands for them)
HlsFiles == [hls720 |-> {"hls720", "seg720"}, hls480 |-> {"hls480", "seg480"}]

VARIABLES
  videos,        \* relational store: videos[v] is the row of v, or NoRow
  assets,        \* relational store: labels of the video_assets rows of v
  objects,       \* object store: the keys that exist for v
  q_videos,      \* Redis list q:videos
  dlq_videos,    \* Redis list dlq:videos
  q_emails,      \* Redis list q:emails
  dlq_emails,    \* Redis list dlq:emails
  lock,          \* lock:video:<id> : owner worker id, or None
  ttl,           \* remaining life of lock:video:<id> (0 none, 1 aged, 2 fresh)
  attempts,      \* attempts:video:<id>
  pc,            \* position of each worker's consumer thread
  job,           \* the message a worker is processing, or NoJob
  loc,           \* locals of process_video: found (the row was loaded), ok
                 \* (will_be_ready), prev_status, k (attempts), val (release_lock)
  del_pc,        \* position of the delete_video request per video
  nfinalize,     \* finalize requests made so far
  ndelete,       \* delete requests made so far
  raised,        \* history: runs of v that raised, while no run of v has succeeded
  succeeded,     \* history: some pipeline run of v reached the end of the try
  email_lock,    \* lock:email:<id> : owner notifier id, or None
  email_attempts,\* attempts:email:<id>
  n_pc,          \* position of each notifier's consumer thread
  n_job,         \* the video id a notifier is processing, or None
  n_val,         \* local of notifier.release_lock: the value GET returned
  sent,          \* history: send_email calls that returned, per video
  now,           \* the database clock func.now() reads (advanced by each stamp)
  search_docs,   \* search index: "video" (videos index) and "chunks"
                 \* (transcript_chunks index) documents held for v
  join_rows,     \* relational store: v has its summary and topic/entity/tag rows
  enrichment,    \* configuration: OpenSearch, Whisper and the LLM are configured
                 \* and reachable (fixed over a behaviour)
  args,          \* arguments of the library call under way, or None
  result         \* its loop state / return value, or None

pipeline_vars == <<assets, objects, q_videos, dlq_videos, lock, ttl,
                   attempts, pc, job, loc, del_pc, nfinalize,
                   ndelete, raised, succeeded>>
notifier_vars == <<dlq_emails, email_lock, email_attempts, n_pc, n_job, n_val,
                   sent, now>>
enrich_vars == <<search_docs, join_rows, enrichment>>
lib_vars == <<args, result>>
vars == <<videos, assets, objects, q_videos, dlq_videos, q_emails, dlq_emails,
          lock, ttl, attempts, pc, job, loc, del_pc, nfinalize,
          ndelete, raised, succeeded, email_lock, email_attempts, n_pc, n_job,
          n_val, sent, now, search_docs, join_rows, enrichment, args, result>>

NoLocals == [found |-> TRUE, ok |-> FALSE, prev_status |-> None, k |-> 0, val |-> None]
NoJob == [video_id |-> None, reason |-> None]

\* ------------------------------------------------------------ helpers
Exists(v) == videos[v].status # "absent"

Msg(v, r) == [video_id |-> v, reason |-> r]

\* redis LPUSH: the new element becomes the head (left end)
lpush(q, m) == <<m>> \o q

\* redis BRPOP: the element taken is the last (right end)
brpop_item(q) == q[Len(q)]
brpop_rest(q) == SubSeq(q, 1, Len(q) - 1)

\* redis LTRIM key 0 9999
DlqCap == 10000
\* a trim that keeps the right end of the list (LTRIM key -10000 -1)
ltrim_right(q) ==
  IF Len(q) > DlqCap THEN SubSeq(q, Len(q) - DlqCap + 1, Len(q)) ELSE q
ltrim(q) == IF Len(q) > DlqCap THEN SubSeq(q, 1, DlqCap) ELSE q

\* worker.acquire_lock: SET key worker_id NX PX ttl
acquire_lock(v, w) == lock[v] = None

\* worker._backoff_for_attempt; NoDelay stands for Python's None
NoDelay == -1
\* a schedule whose last delay is never used
backoff_one_short(attempt) ==
  IF 1 <= attempt /\ attempt < Len(worker_backoff_seconds)
  THEN worker_backoff_seconds[attempt] ELSE NoDelay

backoff_for_attempt(attempt) ==
  IF 1 <= attempt /\ attempt <= Len(worker_backoff_seconds)
  THEN worker_backoff_seconds[attempt] ELSE NoDelay

Vid(w) == job[w].video_id

\* no worker has taken a message: the Redis keys of worker.py are absent
WorkersIdle ==
  /\ q_videos = <<>>
  /\ dlq_videos = <<>>
  /\ lock = [v \in Videos |-> None]
  /\ ttl = [v \in Videos |-> 0]
  /\ attempts = [v \in Videos |-> 0]
  /\ pc = [w \in Workers |-> "idle"]
  /\ job = [w \in Workers |-> NoJob]
  /\ loc = [w \in Workers |-> NoLocals]
  /\ raised = [v \in Videos |-> 0]
  /\ succeeded = [v \in Videos |-> FALSE]

\* no notifier has taken a job: the Redis keys of notifier.py are absent
NotifiersIdle ==
  /\ dlq_emails = <<>>
  /\ email_lock = [v \in Videos |-> None]
  /\ email_attempts = [v \in Videos |-> 0]
  /\ n_pc = [n \in Notifiers |-> "idle"]
  /\ n_job = [n \in Notifiers |-> None]
  /\ n_val = [n \in Notifiers |-> None]
  /\ sent = [v \in Videos |-> 0]
  /\ now = 0

\* no HTTP request has been made
NoRequests ==
  /\ del_pc = [v \in Videos |-> "idle"]
  /\ nfinalize = 0
  /\ ndelete = 0

\* nothing has been written by the enrichment steps
NothingEnriched ==
  /\ search_docs = [v \in Videos |-> {}]
  /\ join_rows = [v \in Videos |-> FALSE]

NoLibraryCall == args = None /\ result = None

\* the deployment of Spec: the raw object is uploaded, no row exists, the
\* enrichment services are not configured
Init ==
  /\ videos = [v \in Videos |-> NoRow]
  /\ assets = [v \in Videos |-> {}]
  /\ objects = [v \in Videos |-> {"raw"}]
  /\ q_emails = <<>>
  /\ enrichment = FALSE
  /\ WorkersIdle
  /\ NotifiersIdle
  /\ NoRequests
  /\ NothingEnriched
  /\ NoLibraryCall

\* ------------------------------------------------- routes_videos.py
\* POST /videos: the raw object must exist; an existing row is enqueued
\* again, a new row is created as 'uploaded' and enqueued.
finalize_video(v) ==
  /\ nfinalize < MaxFinalize
  /\ "raw" \in objects[v]
  /\ nfinalize' = nfinalize + 1
  /\ IF Exists(v)
     THEN /\ q_videos' = lpush(q_videos, Msg(v, "finalize-idempotent"))
          /\ UNCHANGED videos
     ELSE /\ videos' = [videos EXCEPT ![v] =
                          [status |-> "uploaded", error |-> None, notified_at |-> 0]]
          /\ q_videos' = lpush(q_videos, Msg(v, "finalize"))
  /\ UNCHANGED <<assets, objects, dlq_videos, q_emails, lock, ttl, attempts,
                 pc, job, loc, del_pc, ndelete, raised, succeeded>>
  /\ UNCHANGED <<notifier_vars, enrich_vars, lib_vars>>

\* storage.delete_object / storage.delete_prefix: the keys are removed
delete_object(v, keys) == objects' = [objects EXCEPT ![v] = @ \ keys]

\* DELETE /videos/{id}, lines 244-254: load the row (404 when absent) and
\* delete the raw object
delete_raw(v) ==
  /\ del_pc[v] = "idle"
  /\ ndelete < MaxDelete
  /\ Exists(v)
  /\ ndelete' = ndelete + 1
  /\ delete_object(v, {"raw"})
  /\ del_pc' = [del_pc EXCEPT ![v] = "hls"]
  /\ UNCHANGED <<videos, assets, q_videos, dlq_videos, q_emails, lock, ttl,
                 attempts, pc, job, loc, nfinalize, raised, succeeded>>
  /\ UNCHANGED <<notifier_vars, enrich_vars, lib_vars>>

\* lines 256-257: delete_prefix(hls/{video_id}/)
delete_hls(v) ==
  /\ del_pc[v] = "hls"
  /\ delete_object(v, HlsFiles["hls720"] \cup HlsFiles["hls480"])
  /\ del_pc' = [del_pc EXCEPT ![v] = "thumbs"]
  /\ UNCHANGED <<videos, assets, q_videos, dlq_videos, q_emails, lock, ttl,
                 attempts, pc, job, loc, nfinalize, ndelete, raised, succeeded>>
  /\ UNCHANGED <<notifier_vars, enrich_vars, lib_vars>>

\* lines 259-260: delete_prefix(thumbs/{video_id}/)
delete_thumbs(v) ==
  /\ del_pc[v] = "thumbs"
  /\ delete_object(v, {"poster"})
  /\ del_pc' = [del_pc EXCEPT ![v] = "db"]
  /\ UNCHANGED <<videos, assets, q_videos, dlq_videos, q_emails, lock, ttl,
                 attempts, pc, job, loc, nfinalize, ndelete, raised, succeeded>>
  /\ UNCHANGED <<notifier_vars, enrich_vars, lib_vars>>

\* lines 261-263: a storage call raises: HTTP 500, nothing further is
\* deleted and the row stays
delete_fails(v) ==
  /\ del_pc[v] \in {"hls", "thumbs"}
  /\ del_pc' = [del_pc EXCEPT ![v] = "idle"]
  /\ UNCHANGED <<videos, assets, objects, q_videos, dlq_videos, q_emails, lock,
                 ttl, attempts, pc, job, loc, nfinalize, ndelete, raised,
                 succeeded>>
  /\ UNCHANGED <<notifier_vars, enrich_vars, lib_vars>>

\* lines 265-267: db.delete(v); db.commit(): the asset rows, the summary
\* and the join rows cascade (models.py, ondelete="CASCADE"); nothing is
\* sent to the search index
delete_row(v) ==
  /\ del_pc[v] = "db"
  /\ videos' = [videos EXCEPT ![v] = NoRow]
  /\ assets' = [assets EXCEPT ![v] = {}]
  /\ join_rows' = [join_rows EXCEPT ![v] = FALSE]
  /\ del_pc' = [del_pc EXCEPT ![v] = "idle"]
  /\ UNCHANGED <<objects, q_videos, dlq_videos, q_emails, lock, ttl, attempts,
                 pc, job, loc, nfinalize, ndelete, raised, succeeded>>
  /\ UNCHANGED <<notifier_vars, search_docs, enrichment, lib_vars>>

\* --------------------------------------------------------- worker.py
\* _consumer_loop: BRPOP q:videos, then process_video(video_id, reason)
consumer_pop(w) ==
  /\ pc[w] = "idle"
  /\ q_videos # <<>>
  /\ job' = [job EXCEPT ![w] = brpop_item(q_videos)]
  /\ q_videos' = brpop_rest(q_videos)
  /\ pc' = [pc EXCEPT ![w] = "acquire"]
  /\ UNCHANGED <<videos, assets, objects, dlq_videos, q_emails, lock, ttl,
                 attempts, loc, del_pc, nfinalize, ndelete, raised, succeeded>>
  /\ UNCHANGED <<notifier_vars, enrich_vars, lib_vars>>

\* process_video, lines 484-499: the lock is acquired and the
\* _lock_refresher thread started
lock_acquired(w) ==
  /\ pc[w] = "acquire"
  /\ acquire_lock(Vid(w), w)
  /\ lock' = [lock EXCEPT ![Vid(w)] = w]
  /\ ttl' = [ttl EXCEPT ![Vid(w)] = 2]
  /\ pc' = [pc EXCEPT ![w] = "load"]
  /\ UNCHANGED <<videos, assets, objects, q_videos, dlq_videos, q_emails,
                 attempts, job, loc, del_pc, nfinalize, ndelete, raised,
                 succeeded>>
  /\ UNCHANGED <<notifier_vars, enrich_vars, lib_vars>>

\* lines 487-493: the lock is taken: log lock_skip and return
lock_skip(w) ==
  /\ pc[w] = "acquire"
  /\ ~acquire_lock(Vid(w), w)
  /\ pc' = [pc EXCEPT ![w] = "idle"]
  /\ job' = [job EXCEPT ![w] = NoJob]
  /\ UNCHANGED <<videos, assets, objects, q_videos, dlq_videos, q_emails, lock,
                 ttl, attempts, loc, del_pc, nfinalize, ndelete, raised,
                 succeeded>>
  /\ UNCHANGED <<notifier_vars, enrich_vars, lib_vars>>

\* lines 501-527: load the row; a missing row returns (to the finally
\* clause); an 'uploaded' row becomes 'processing' with error cleared.
load_video(w) ==
  /\ pc[w] = "load"
  /\ IF ~Exists(Vid(w))
     THEN /\ pc' = [pc EXCEPT ![w] = "finally"]
          /\ loc' = [loc EXCEPT ![w].found = FALSE]
          /\ UNCHANGED videos
     ELSE /\ pc' = [pc EXCEPT ![w] = "probe"]
          /\ videos' = [videos EXCEPT ![Vid(w)] =
               IF @.status = "uploaded"
               THEN [@ EXCEPT !.status = "processing", !.error = None]
               ELSE @]
          /\ UNCHANGED loc
  /\ UNCHANGED <<assets, objects, q_videos, dlq_videos, q_emails, lock, ttl,
                 attempts, job, del_pc, nfinalize, ndelete, raised,
                 succeeded>>
  /\ UNCHANGED <<notifier_vars, enrich_vars, lib_vars>>

\* search.index_video_metadata / index_transcript_chunks: documents kind of
\* v are upserted, or the call fails and is logged; without a client nothing
\* is written
index_documents(v, kind) ==
  IF enrichment THEN {search_docs[v] \cup {kind}, search_docs[v]}
  ELSE {search_docs[v]}

\* lines 529-557: download the raw object (raises when it is gone), probe,
\* and persist probe and duration with error cleared when the row exists;
\* then index_video_metadata inside its own try.
probe_video(w) ==
  /\ pc[w] = "probe"
  /\ IF "raw" \notin objects[Vid(w)]
     THEN /\ pc' = [pc EXCEPT ![w] = "except"]
          /\ UNCHANGED <<videos, search_docs>>
     ELSE /\ pc' = [pc EXCEPT ![w] = "hls720"]
          /\ videos' = [videos EXCEPT ![Vid(w)] =
               IF @.status # "absent" THEN [@ EXCEPT !.error = None] ELSE @]
          /\ IF Exists(Vid(w))
             THEN \E docs \in index_documents(Vid(w), "video") :
                    search_docs' = [search_docs EXCEPT ![Vid(w)] = docs]
             ELSE UNCHANGED search_docs
  /\ UNCHANGED <<assets, objects, q_videos, dlq_videos, q_emails, lock, ttl,
                 attempts, job, loc, del_pc, nfinalize, ndelete, raised,
                 succeeded>>
  /\ UNCHANGED <<notifier_vars, join_rows, enrichment, lib_vars>>

\* storage.object_exists: True when stat_object succeeds, False on any
\* exception of the call (so also for an object that exists)
object_exists(v, key) == {key \in objects[v], FALSE}

\* lines 559-617: one artifact step: skip when the object at key is seen to
\* exist, else produce the files and upload them under their deterministic
\* keys.
artifact_step(w, at, key, files, next) ==
  /\ pc[w] = at
  /\ \E exists \in object_exists(Vid(w), key) :
       objects' = [objects EXCEPT ![Vid(w)] = IF exists THEN @ ELSE @ \cup files]
  /\ pc' = [pc EXCEPT ![w] = next]
  /\ UNCHANGED <<videos, assets, q_videos, dlq_videos, q_emails, lock, ttl,
                 attempts, job, loc, del_pc, nfinalize, ndelete, raised,
                 succeeded>>
  /\ UNCHANGED <<notifier_vars, enrich_vars, lib_vars>>

\* the step after the thumbnail: transcription and extraction do nothing
\* when their services are not configured
\* a pipeline that goes from the thumbnail straight to the re-stat
after_thumbnail_to_stat == "stat"
after_thumbnail == IF enrichment THEN "enrich" ELSE "upsert"

hls_720p(w) == artifact_step(w, "hls720", "hls720", HlsFiles["hls720"], "hls480")
hls_480p(w) == artifact_step(w, "hls480", "hls480", HlsFiles["hls480"], "thumb")
thumbnail(w) == artifact_step(w, "thumb", "poster", {"poster"}, after_thumbnail)

\* storage.upload_dir, lines 106-114: fput_object raises after some but not
\* all files of the rung were put (os.walk fixes no order among them)
upload_interrupted(w) ==
  /\ pc[w] \in DOMAIN HlsFiles
  /\ FALSE \in object_exists(Vid(w), pc[w])
  /\ \E part \in SUBSET HlsFiles[pc[w]] :
       /\ part # {} /\ part # HlsFiles[pc[w]]
       /\ objects' = [objects EXCEPT ![Vid(w)] = @ \cup part]
  /\ pc' = [pc EXCEPT ![w] = "except"]
  /\ UNCHANGED <<videos, assets, q_videos, dlq_videos, q_emails, lock, ttl,
                 attempts, job, loc, del_pc, nfinalize, ndelete, raised,
                 succeeded>>
  /\ UNCHANGED <<notifier_vars, enrich_vars, lib_vars>>

\* lines 619-719, every part inside a try of its own: transcription (or the
\* re-parse of an existing caption object) with the indexing of its chunks,
\* then LLM extraction and persist_result.  Each part either writes or
\* fails and is logged; the step always continues to the asset upsert.
enrich(w) ==
  /\ pc[w] = "enrich"
  /\ \E has_vtt \in object_exists(Vid(w), "caption"),
        vtt_written \in BOOLEAN, persisted \in BOOLEAN :
       /\ vtt_written => ~has_vtt
       /\ persisted => Exists(Vid(w))
       /\ objects' = [objects EXCEPT ![Vid(w)] =
                        IF vtt_written THEN @ \cup {"caption"} ELSE @]
       /\ IF has_vtt \/ vtt_written
          THEN \E docs \in index_documents(Vid(w), "chunks") :
                 search_docs' = [search_docs EXCEPT ![Vid(w)] = docs]
          ELSE UNCHANGED search_docs
       /\ join_rows' = [join_rows EXCEPT ![Vid(w)] = @ \/ persisted]
  /\ pc' = [pc EXCEPT ![w] = "upsert"]
  /\ UNCHANGED <<videos, assets, q_videos, dlq_videos, q_emails, lock, ttl,
                 attempts, job, loc, del_pc, nfinalize, ndelete, raised,
                 succeeded>>
  /\ UNCHANGED <<notifier_vars, enrichment, lib_vars>>

\* download, ffprobe, ffmpeg, an upload or a database call raises: control
\* passes to the except clause of process_video
\* the raising steps of a pipeline whose transcription and extraction were
\* not wrapped in a try of their own
RaisingPcsUnguarded == {"probe", "hls720", "hls480", "thumb", "enrich", "upsert"}
RaisingPcs == {"probe", "hls720", "hls480", "thumb", "upsert"}
pipeline_raises(w) ==
  /\ pc[w] \in RaisingPcs
  /\ pc' = [pc EXCEPT ![w] = "except"]
  /\ UNCHANGED <<videos, assets, objects, q_videos, dlq_videos, q_emails, lock,
                 ttl, attempts, job, loc, del_pc, nfinalize, ndelete, raised,
                 succeeded>>
  /\ UNCHANGED <<notifier_vars, enrich_vars, lib_vars>>

\* lines 721-725: upsert the three asset rows; the insert of an asset row
\* for a video whose row is gone violates the foreign key and raises.
upsert_assets(w) ==
  /\ pc[w] = "upsert"
  /\ IF Exists(Vid(w))
     THEN /\ assets' = [assets EXCEPT ![Vid(w)] = {"720p", "480p", "poster"}]
          /\ pc' = [pc EXCEPT ![w] = "stat"]
     ELSE /\ pc' = [pc EXCEPT ![w] = "except"]
          /\ UNCHANGED assets
  /\ UNCHANGED <<videos, objects, q_videos, dlq_videos, q_emails, lock, ttl,
                 attempts, job, loc, del_pc, nfinalize, ndelete, raised,
                 succeeded>>
  /\ UNCHANGED <<notifier_vars, enrich_vars, lib_vars>>

\* lines 727-730: re-stat the three required objects
stat_required(w) ==
  /\ pc[w] = "stat"
  /\ \E ok720 \in object_exists(Vid(w), "hls720"),
        ok480 \in object_exists(Vid(w), "hls480"),
        okthumb \in object_exists(Vid(w), "poster") :
       loc' = [loc EXCEPT ![w].ok = ok720 /\ ok480 /\ okthumb]
  /\ pc' = [pc EXCEPT ![w] = "fin_read"]
  /\ UNCHANGED <<videos, assets, objects, q_videos, dlq_videos, q_emails, lock,
                 ttl, attempts, job, del_pc, nfinalize, ndelete, raised,
                 succeeded>>
  /\ UNCHANGED <<notifier_vars, enrich_vars, lib_vars>>

\* lines 731-735: v = db.get(Video, id); prev_status = v.status.  A missing
\* row skips the status write.
finalize_read(w) ==
  /\ pc[w] = "fin_read"
  /\ IF Exists(Vid(w))
     THEN /\ loc' = [loc EXCEPT ![w].prev_status = videos[Vid(w)].status]
          /\ pc' = [pc EXCEPT ![w] = "fin_commit"]
     ELSE /\ pc' = [pc EXCEPT ![w] = "reset"]
          /\ loc' = [loc EXCEPT ![w].ok = FALSE]
  /\ UNCHANGED <<videos, assets, objects, q_videos, dlq_videos, q_emails, lock,
                 ttl, attempts, job, del_pc, nfinalize, ndelete, raised,
                 succeeded>>
  /\ UNCHANGED <<notifier_vars, enrich_vars, lib_vars>>

\* the status process_video writes at lines 736-740
final_status(will_be_ready) == IF will_be_ready THEN "ready" ELSE "processing"

\* line 744: the condition under which the email job is enqueued
notify_due(will_be_ready, prev_status, notified_at) ==
  will_be_ready /\ prev_status # "ready" /\ notified_at = 0

\* lines 736-748: write the status and commit (the UPDATE of a row deleted
\* meanwhile raises); enqueue the email job when the run made the video
\* ready, the status read before was not ready and notified_at is null.
finalize_commit(w) ==
  /\ pc[w] = "fin_commit"
  /\ IF ~Exists(Vid(w))
     THEN /\ pc' = [pc EXCEPT ![w] = "except"]
          /\ UNCHANGED <<videos, q_emails>>
     ELSE /\ pc' = [pc EXCEPT ![w] = "reset"]
          /\ videos' = [videos EXCEPT ![Vid(w)] =
               [@ EXCEPT !.status = final_status(loc[w].ok),
                         !.error = IF loc[w].ok THEN None ELSE @]]
          /\ q_emails' =
               IF notify_due(loc[w].ok, loc[w].prev_status,
                             videos[Vid(w)].notified_at)
               THEN lpush(q_emails, Vid(w)) ELSE q_emails
  /\ loc' = [loc EXCEPT ![w].ok = FALSE, ![w].prev_status = None]
  /\ UNCHANGED <<assets, objects, q_videos, dlq_videos, lock, ttl, attempts,
                 job, del_pc, nfinalize, ndelete, raised, succeeded>>
  /\ UNCHANGED <<notifier_vars, enrich_vars, lib_vars>>

\* line 755: redis_client.delete(attempts key), the end of the try block
reset_attempts(w) ==
  /\ pc[w] = "reset"
  /\ attempts' = [attempts EXCEPT ![Vid(w)] = 0]
  /\ succeeded' = [succeeded EXCEPT ![Vid(w)] = TRUE]
  /\ raised' = [raised EXCEPT ![Vid(w)] = 0]
  /\ pc' = [pc EXCEPT ![w] = "finally"]
  /\ UNCHANGED <<videos, assets, objects, q_videos, dlq_videos, q_emails, lock,
                 ttl, job, loc, del_pc, nfinalize, ndelete>>
  /\ UNCHANGED <<notifier_vars, enrich_vars, lib_vars>>

\* lines 766-770: INCR the attempts counter and look up the delay
on_exception(w) ==
  /\ pc[w] = "except"
  /\ attempts' = [attempts EXCEPT ![Vid(w)] = @ + 1]
  /\ raised' = [raised EXCEPT ![Vid(w)] = IF succeeded[Vid(w)] THEN 0 ELSE @ + 1]
  /\ loc' = [loc EXCEPT ![w].k = attempts[Vid(w)] + 1]
  /\ pc' = [pc EXCEPT ![w] =
       IF backoff_for_attempt(attempts[Vid(w)] + 1) # NoDelay
       THEN "retry" ELSE "terminal"]
  /\ UNCHANGED <<videos, assets, objects, q_videos, dlq_videos, q_emails, lock,
                 ttl, job, del_pc, nfinalize, ndelete, succeeded>>
  /\ UNCHANGED <<notifier_vars, enrich_vars, lib_vars>>

\* lines 781-784: sleep for the delay, then LPUSH the retry message
retry_push(w) ==
  /\ pc[w] = "retry"
  /\ q_videos' = lpush(q_videos, Msg(Vid(w), "retry"))
  /\ pc' = [pc EXCEPT ![w] = "finally"]
  /\ UNCHANGED <<videos, assets, objects, dlq_videos, q_emails, lock, ttl,
                 attempts, job, loc, del_pc, nfinalize, ndelete, raised,
                 succeeded>>
  /\ UNCHANGED <<notifier_vars, enrich_vars, lib_vars>>

\* lines 786-813: the retry budget is spent: when the row exists mark it
\* failed with the error and push a dead-letter entry (LPUSH, LTRIM)
terminal_failure(w) ==
  /\ pc[w] = "terminal"
  /\ IF Exists(Vid(w))
     THEN /\ videos' = [videos EXCEPT ![Vid(w)] =
                          [@ EXCEPT !.status = "failed", !.error = "err"]]
          /\ dlq_videos' = ltrim(lpush(dlq_videos, Vid(w)))
     ELSE UNCHANGED <<videos, dlq_videos>>
  /\ pc' = [pc EXCEPT ![w] = "finally"]
  /\ UNCHANGED <<assets, objects, q_videos, q_emails, lock, ttl, attempts, job,
                 loc, del_pc, nfinalize, ndelete, raised, succeeded>>
  /\ UNCHANGED <<notifier_vars, enrich_vars, lib_vars>>

\* lines 814-816 and release_lock line 62: set the refresher's stop event,
\* then GET the lock key
release_get(w) ==
  /\ pc[w] = "finally"
  /\ loc' = [loc EXCEPT ![w].val = lock[Vid(w)], ![w].k = 0]
  /\ pc' = [pc EXCEPT ![w] = "release"]
  /\ UNCHANGED <<videos, assets, objects, q_videos, dlq_videos, q_emails, lock,
                 ttl, attempts, job, del_pc, nfinalize, ndelete, raised,
                 succeeded>>
  /\ UNCHANGED <<notifier_vars, enrich_vars, lib_vars>>

\* release_lock lines 63-64: DELETE the key when the value read was ours;
\* process_video returns to the consumer loop
release_delete(w) ==
  /\ pc[w] = "release"
  /\ IF loc[w].val = w
     THEN /\ lock' = [lock EXCEPT ![Vid(w)] = None]
          /\ ttl' = [ttl EXCEPT ![Vid(w)] = 0]
     ELSE UNCHANGED <<lock, ttl>>
  /\ pc' = [pc EXCEPT ![w] = "idle"]
  /\ job' = [job EXCEPT ![w] = NoJob]
  /\ loc' = [loc EXCEPT ![w] = NoLocals]
  /\ UNCHANGED <<videos, assets, objects, q_videos, dlq_videos, q_emails,
                 attempts, del_pc, nfinalize, ndelete, raised, succeeded>>
  /\ UNCHANGED <<notifier_vars, enrich_vars, lib_vars>>

\* the pipeline body of process_video: from the acquired lock to the
\* finally clause
BodyPcs == {"load", "probe", "hls720", "hls480", "thumb", "enrich", "upsert",
            "stat", "fin_read", "fin_commit", "reset", "except", "retry",
            "terminal"}

\* _lock_refresher / refresh_lock: the thread lives from the acquired lock
\* until it sees the stop event; after each sleep it sends PEXPIRE for the
\* key, whoever owns it
lock_refresh(w) ==
  /\ pc[w] \in BodyPcs \cup {"finally", "release"}
  /\ lock[Vid(w)] # None
  /\ ttl[Vid(w)] = 1
  /\ ttl' = [ttl EXCEPT ![Vid(w)] = 2]
  /\ UNCHANGED <<videos, assets, objects, q_videos, dlq_videos, q_emails, lock,
                 attempts, pc, job, loc, del_pc, nfinalize, ndelete, raised,
                 succeeded>>
  /\ UNCHANGED <<notifier_vars, enrich_vars, lib_vars>>

\* the clock advances: a fresh lock key ages, an aged one expires
lock_tick(v) ==
  /\ lock[v] # None
  /\ IF ttl[v] = 2
     THEN /\ ttl' = [ttl EXCEPT ![v] = 1]
          /\ UNCHANGED lock
     ELSE /\ ttl' = [ttl EXCEPT ![v] = 0]
          /\ lock' = [lock EXCEPT ![v] = None]
  /\ UNCHANGED <<videos, assets, objects, q_videos, dlq_videos, q_emails,
                 attempts, pc, job, loc, del_pc, nfinalize, ndelete, raised,
                 succeeded>>
  /\ UNCHANGED <<notifier_vars, enrich_vars, lib_vars>>

Next ==
  \/ \E v \in Videos : finalize_video(v)
  \/ \E v \in Videos : delete_raw(v)
  \/ \E v \in Videos : delete_hls(v)
  \/ \E v \in Videos : delete_thumbs(v)
  \/ \E v \in Videos : delete_fails(v)
  \/ \E v \in Videos : delete_row(v)
  \/ \E w \in Workers : consumer_pop(w)
  \/ \E w \in Workers : lock_acquired(w)
  \/ \E w \in Workers : lock_skip(w)
  \/ \E w \in Workers : load_video(w)
  \/ \E w \in Workers : probe_video(w)
  \/ \E w \in Workers : hls_720p(w)
  \/ \E w \in Workers : hls_480p(w)
  \/ \E w \in Workers : thumbnail(w)
  \/ \E w \in Workers : pipeline_raises(w)
  \/ \E w \in Workers : upsert_assets(w)
  \/ \E w \in Workers : stat_required(w)
  \/ \E w \in Workers : finalize_read(w)
  \/ \E w \in Workers : finalize_commit(w)
  \/ \E w \in Workers : reset_attempts(w)
  \/ \E w \in Workers : on_exception(w)
  \/ \E w \in Workers : retry_push(w)
  \/ \E w \in Workers : terminal_failure(w)
  \/ \E w \in Workers : release_get(w)
  \/ \E w \in Workers : release_delete(w)
  \/ \E w \in Workers : lock_refresh(w)
  \/ \E v \in Videos : lock_tick(v)

Spec == Init /\ [][Next]_vars

\* --------------------------------------- one worker, enrichment enabled
\* a deployment with a single worker process in which OpenSearch, Whisper
\* and the LLM are configured; uploads may be interrupted between files.
\* With one consumer thread no acquire_lock meets a held key, and nobody
\* but the holder reads it: the key's TTL and its heartbeat are left to Spec.
RunWorkers == {"w1"}

InitRun ==
  /\ videos = [v \in Videos |-> NoRow]
  /\ assets = [v \in Videos |-> {}]
  /\ objects = [v \in Videos |-> {"raw"}]
  /\ q_emails = <<>>
  /\ enrichment = TRUE
  /\ WorkersIdle
  /\ NotifiersIdle
  /\ NoRequests
  /\ NothingEnriched
  /\ NoLibraryCall

NextRun ==
  \/ \E v \in Videos : finalize_video(v)
  \/ \E v \in Videos : delete_raw(v)
  \/ \E v \in Videos : delete_hls(v)
  \/ \E v \in Videos : delete_thumbs(v)
  \/ \E v \in Videos : delete_fails(v)
  \/ \E v \in Videos : delete_row(v)
  \/ \E w \in RunWorkers : consumer_pop(w)
  \/ \E w \in RunWorkers : lock_acquired(w)
  \/ \E w \in RunWorkers : load_video(w)
  \/ \E w \in RunWorkers : probe_video(w)
  \/ \E w \in RunWorkers : hls_720p(w)
  \/ \E w \in RunWorkers : hls_480p(w)
  \/ \E w \in RunWorkers : thumbnail(w)
  \/ \E w \in RunWorkers : upload_interrupted(w)
  \/ \E w \in RunWorkers : enrich(w)
  \/ \E w \in RunWorkers : pipeline_raises(w)
  \/ \E w \in RunWorkers : upsert_assets(w)
  \/ \E w \in RunWorkers : stat_required(w)
  \/ \E w \in RunWorkers : finalize_read(w)
  \/ \E w \in RunWorkers : finalize_commit(w)
  \/ \E w \in RunWorkers : reset_attempts(w)
  \/ \E w \in RunWorkers : on_exception(w)
  \/ \E w \in RunWorkers : retry_push(w)
  \/ \E w \in RunWorkers : terminal_failure(w)
  \/ \E w \in RunWorkers : release_get(w)
  \/ \E w \in RunWorkers : release_delete(w)

SpecRun == InitRun /\ [][NextRun]_vars

\* ------------------------------------------------------- notifier.py
\* _consumer_loop: BRPOP q:emails, then notify_video_ready(video_id, reason)
notifier_pop(n) ==
  /\ n_pc[n] = "idle"
  /\ q_emails # <<>>
  /\ n_job' = [n_job EXCEPT ![n] = brpop_item(q_emails)]
  /\ q_emails' = brpop_rest(q_emails)
  /\ n_pc' = [n_pc EXCEPT ![n] = "acquire"]
  /\ UNCHANGED <<videos, dlq_emails, email_lock, email_attempts, n_val, sent, now>>
  /\ UNCHANGED <<pipeline_vars, enrich_vars, lib_vars>>

\* notifier.acquire_lock: SET lock:email:<id> worker_id NX PX ttl
email_acquire_lock(v, n) == email_lock[v] = None

\* notify_video_ready, lines 57-58: the lock is acquired (no heartbeat thread
\* is started for it)
email_lock_acquired(n) ==
  /\ n_pc[n] = "acquire"
  /\ email_acquire_lock(n_job[n], n)
  /\ email_lock' = [email_lock EXCEPT ![n_job[n]] = n]
  /\ n_pc' = [n_pc EXCEPT ![n] = "load"]
  /\ UNCHANGED <<videos, q_emails, dlq_emails, email_attempts, n_job, n_val,
                 sent, now>>
  /\ UNCHANGED <<pipeline_vars, enrich_vars, lib_vars>>

\* lines 58-60: the lock is taken: log lock_skip and return
email_lock_skip(n) ==
  /\ n_pc[n] = "acquire"
  /\ ~email_acquire_lock(n_job[n], n)
  /\ n_pc' = [n_pc EXCEPT ![n] = "idle"]
  /\ n_job' = [n_job EXCEPT ![n] = None]
  /\ UNCHANGED <<videos, q_emails, dlq_emails, email_lock, email_attempts,
                 n_val, sent, now>>
  /\ UNCHANGED <<pipeline_vars, enrich_vars, lib_vars>>

\* line 73: the run proceeds only for a 'ready' row with notified_at null
notify_wanted(row) == row.status = "ready" /\ row.notified_at = 0

\* lines 62-92: load the row and the owner; a missing row, a row that is not
\* ready or one already notified returns (to the finally clause).  The owner
\* is taken to exist with an email address.
notify_load(n) ==
  /\ n_pc[n] = "load"
  /\ n_pc' = [n_pc EXCEPT ![n] =
       IF Exists(n_job[n]) /\ notify_wanted(videos[n_job[n]])
       THEN "send" ELSE "finally"]
  /\ UNCHANGED <<videos, q_emails, dlq_emails, email_lock, email_attempts,
                 n_job, n_val, sent, now>>
  /\ UNCHANGED <<pipeline_vars, enrich_vars, lib_vars>>

\* line 101: send_email returns
notify_send(n) ==
  /\ n_pc[n] = "send"
  /\ sent' = [sent EXCEPT ![n_job[n]] = @ + 1]
  /\ n_pc' = [n_pc EXCEPT ![n] = "stamp"]
  /\ UNCHANGED <<videos, q_emails, dlq_emails, email_lock, email_attempts,
                 n_job, n_val, now>>
  /\ UNCHANGED <<pipeline_vars, enrich_vars, lib_vars>>

\* lines 104-105: v.notified_at = func.now(); db.commit()
notify_stamp(n) ==
  /\ n_pc[n] = "stamp"
  /\ now' = now + 1
  /\ videos' = [videos EXCEPT ![n_job[n]].notified_at = now + 1]
  /\ n_pc' = [n_pc EXCEPT ![n] = "reset"]
  /\ UNCHANGED <<q_emails, dlq_emails, email_lock, email_attempts, n_job,
                 n_val, sent>>
  /\ UNCHANGED <<pipeline_vars, enrich_vars, lib_vars>>

\* a database call, send_email or the commit of notified_at raises: control
\* passes to the except clause of notify_video_ready
NotifyRaisingPcs == {"load", "send", "stamp"}
notify_raises(n) ==
  /\ n_pc[n] \in NotifyRaisingPcs
  /\ n_pc' = [n_pc EXCEPT ![n] = "except"]
  /\ UNCHANGED <<videos, q_emails, dlq_emails, email_lock, email_attempts,
                 n_job, n_val, sent, now>>
  /\ UNCHANGED <<pipeline_vars, enrich_vars, lib_vars>>

\* line 106: redis_client.delete(attempts key), the end of the try block
notify_reset_attempts(n) ==
  /\ n_pc[n] = "reset"
  /\ email_attempts' = [email_attempts EXCEPT ![n_job[n]] = 0]
  /\ n_pc' = [n_pc EXCEPT ![n] = "finally"]
  /\ UNCHANGED <<videos, q_emails, dlq_emails, email_lock, n_job, n_val, sent,
                 now>>
  /\ UNCHANGED <<pipeline_vars, enrich_vars, lib_vars>>

\* lines 109-112: INCR the attempts counter and look up the delay
notify_on_exception(n) ==
  /\ n_pc[n] = "except"
  /\ email_attempts' = [email_attempts EXCEPT ![n_job[n]] = @ + 1]
  /\ n_pc' = [n_pc EXCEPT ![n] =
       IF backoff_for_attempt(email_attempts[n_job[n]] + 1) # NoDelay
       THEN "retry" ELSE "terminal"]
  /\ UNCHANGED <<videos, q_emails, dlq_emails, email_lock, n_job, n_val, sent,
                 now>>
  /\ UNCHANGED <<pipeline_vars, enrich_vars, lib_vars>>

\* lines 123-126: sleep for the delay, then LPUSH the retry job
notify_retry_push(n) ==
  /\ n_pc[n] = "retry"
  /\ q_emails' = lpush(q_emails, n_job[n])
  /\ n_pc' = [n_pc EXCEPT ![n] = "finally"]
  /\ UNCHANGED <<videos, dlq_emails, email_lock, email_attempts, n_job, n_val,
                 sent, now>>
  /\ UNCHANGED <<pipeline_vars, enrich_vars, lib_vars>>

\* lines 128-149: the retry budget is spent: push a dead-letter entry
notify_terminal_failure(n) ==
  /\ n_pc[n] = "terminal"
  /\ dlq_emails' = ltrim(lpush(dlq_emails, n_job[n]))
  /\ n_pc' = [n_pc EXCEPT ![n] = "finally"]
  /\ UNCHANGED <<videos, q_emails, email_lock, email_attempts, n_job, n_val,
                 sent, now>>
  /\ UNCHANGED <<pipeline_vars, enrich_vars, lib_vars>>

\* line 151 and notifier.release_lock line 44: GET the lock key
email_release_get(n) ==
  /\ n_pc[n] = "finally"
  /\ n_val' = [n_val EXCEPT ![n] = email_lock[n_job[n]]]
  /\ n_pc' = [n_pc EXCEPT ![n] = "release"]
  /\ UNCHANGED <<videos, q_emails, dlq_emails, email_lock, email_attempts,
                 n_job, sent, now>>
  /\ UNCHANGED <<pipeline_vars, enrich_vars, lib_vars>>

\* notifier.release_lock lines 45-46: DELETE the key when the value read was
\* ours; notify_video_ready returns to the consumer loop
email_release_delete(n) ==
  /\ n_pc[n] = "release"
  /\ email_lock' = [email_lock EXCEPT ![n_job[n]] =
                      IF n_val[n] = n THEN None ELSE @]
  /\ n_pc' = [n_pc EXCEPT ![n] = "idle"]
  /\ n_job' = [n_job EXCEPT ![n] = None]
  /\ n_val' = [n_val EXCEPT ![n] = None]
  /\ UNCHANGED <<videos, q_emails, dlq_emails, email_attempts, sent, now>>
  /\ UNCHANGED <<pipeline_vars, enrich_vars, lib_vars>>

\* the PX time of lock:email:<id> elapses while its holder is still in
\* notify_video_ready (nothing re-arms this key)
email_lock_expires(v) ==
  /\ email_lock[v] # None
  /\ email_lock' = [email_lock EXCEPT ![v] = None]
  /\ UNCHANGED <<videos, q_emails, dlq_emails, email_attempts, n_pc, n_job,
                 n_val, sent, now>>
  /\ UNCHANGED <<pipeline_vars, enrich_vars, lib_vars>>

\* the notifier started on a store the pipeline left behind: the row of the
\* video in one of its statuses and not yet notified, and between one and
\* MaxEmailJobs video_ready jobs for it in q:emails
InitNotify ==
  /\ \E st \in {"absent", "processing", "ready"} :
       videos = [v \in Videos |-> [status |-> st, error |-> None, notified_at |-> 0]]
  /\ \E k \in 1..MaxEmailJobs : q_emails = [i \in 1..k |-> "v1"]
  /\ assets = [v \in Videos |-> {}]
  /\ objects = [v \in Videos |-> AllObjects]
  /\ enrichment = FALSE
  /\ WorkersIdle
  /\ NotifiersIdle
  /\ NoRequests
  /\ NothingEnriched
  /\ NoLibraryCall

NextNotify ==
  \/ \E n \in Notifiers : notifier_pop(n)
  \/ \E n \in Notifiers : email_lock_acquired(n)
  \/ \E n \in Notifiers : email_lock_skip(n)
  \/ \E n \in Notifiers : notify_load(n)
  \/ \E n \in Notifiers : notify_send(n)
  \/ \E n \in Notifiers : notify_stamp(n)
  \/ \E n \in Notifiers : notify_raises(n)
  \/ \E n \in Notifiers : notify_reset_attempts(n)
  \/ \E n \in Notifiers : notify_on_exception(n)
  \/ \E n \in Notifiers : notify_retry_push(n)
  \/ \E n \in Notifiers : notify_terminal_failure(n)
  \/ \E n \in Notifiers : email_release_get(n)
  \/ \E n \in Notifiers : email_release_delete(n)
  \/ \E v \in Videos : email_lock_expires(v)

SpecNotify == InitNotify /\ [][NextNotify]_vars

\* ------------------------------------------------- dead-letter lists
\* The two dead-letter pushes at the grain of their Redis commands: LPUSH and
\* LTRIM are separate round trips, so the pushes of two threads interleave.
\* Entries are numbered in the order of their LPUSH (the payload's ts);
\* args holds the number of entries pushed to each list so far.  Everything
\* a thread does between two terminal failures is left out: a thread is
\* "idle" until its next LPUSH.
MaxDlqPushes == 2

\* the list after n pushes, at most DlqCap of them retained
recent_entries(n) ==
  [i \in 1..(IF n > DlqCap THEN DlqCap ELSE n) |-> n - i + 1]

dlq_frame ==
  UNCHANGED <<videos, assets, objects, q_videos, q_emails, lock, ttl, attempts,
              job, loc, del_pc, nfinalize, ndelete, raised, succeeded,
              email_lock, email_attempts, n_job, n_val, sent, now,
              enrich_vars, result>>

\* worker.py 794-805: LPUSH dlq:videos
worker_dlq_lpush(w) ==
  /\ pc[w] = "idle"
  /\ args.videos < DlqCap + MaxDlqPushes
  /\ args' = [args EXCEPT !.videos = @ + 1]
  /\ dlq_videos' = lpush(dlq_videos, args'.videos)
  /\ pc' = [pc EXCEPT ![w] = "ltrim"]
  /\ UNCHANGED <<dlq_emails, n_pc>>
  /\ dlq_frame

\* worker.py 806: LTRIM dlq:videos 0 9999
worker_dlq_ltrim(w) ==
  /\ pc[w] = "ltrim"
  /\ dlq_videos' = ltrim(dlq_videos)
  /\ pc' = [pc EXCEPT ![w] = "idle"]
  /\ UNCHANGED <<dlq_emails, n_pc, args>>
  /\ dlq_frame

\* notifier.py 130-141: LPUSH dlq:emails
notifier_dlq_lpush(n) ==
  /\ n_pc[n] = "idle"
  /\ args.emails < DlqCap + MaxDlqPushes
  /\ args' = [args EXCEPT !.emails = @ + 1]
  /\ dlq_emails' = lpush(dlq_emails, args'.emails)
  /\ n_pc' = [n_pc EXCEPT ![n] = "ltrim"]
  /\ UNCHANGED <<dlq_videos, pc>>
  /\ dlq_frame

\* notifier.py 142: LTRIM dlq:emails 0 9999
notifier_dlq_ltrim(n) ==
  /\ n_pc[n] = "ltrim"
  /\ dlq_emails' = ltrim(dlq_emails)
  /\ n_pc' = [n_pc EXCEPT ![n] = "idle"]
  /\ UNCHANGED <<dlq_videos, pc, args>>
  /\ dlq_frame

\* both lists start one entry below the cap or at the cap
InitDlq ==
  /\ \E nv \in {DlqCap - 1, DlqCap}, ne \in {DlqCap - 1, DlqCap} :
       /\ args = [videos |-> nv, emails |-> ne]
       /\ dlq_videos = recent_entries(nv)
       /\ dlq_emails = recent_entries(ne)
  /\ result = None
  /\ videos = [v \in Videos |-> NoRow]
  /\ assets = [v \in Videos |-> {}]
  /\ objects = [v \in Videos |-> {"raw"}]
  /\ q_videos = <<>>
  /\ q_emails = <<>>
  /\ enrichment = FALSE
  /\ lock = [v \in Videos |-> None]
  /\ ttl = [v \in Videos |-> 0]
  /\ attempts = [v \in Videos |-> 0]
  /\ pc = [w \in Workers |-> "idle"]
  /\ job = [w \in Workers |-> NoJob]
  /\ loc = [w \in Workers |-> NoLocals]
  /\ raised = [v \in Videos |-> 0]
  /\ succeeded = [v \in Videos |-> FALSE]
  /\ email_lock = [v \in Videos |-> None]
  /\ email_attempts = [v \in Videos |-> 0]
  /\ n_pc = [n \in Notifiers |-> "idle"]
  /\ n_job = [n \in Notifiers |-> None]
  /\ n_val = [n \in Notifiers |-> None]
  /\ sent = [v \in Videos |-> 0]
  /\ now = 0
  /\ NoRequests
  /\ NothingEnriched

NextDlq ==
  \/ \E w \in Workers : worker_dlq_lpush(w)
  \/ \E w \in Workers : worker_dlq_ltrim(w)
  \/ \E n \in Notifiers : notifier_dlq_lpush(n)
  \/ \E n \in Notifiers : notifier_dlq_ltrim(n)

SpecDlq == InitDlq /\ [][NextDlq]_vars

\* ------------------------------------------------- recommendations.py
\* max_marginal_relevance (lines 238-285) as a loop of selection steps.
\* Floats are integers: relevance, similarity and lambda in tenths, MMR
\* scores in hundredths; PosInf, NegInf and NaN stand for the IEEE values
\* and the operators below give them their arithmetic.  args is the call
\* (relevance per input position, lambda_weight, limit); result holds the
\* loop's variables.  similarity_fn is any function: its value for a pair
\* (remaining item, chosen item) is drawn when the code calls it, which is
\* once per pair.  result.seen_max records, for each input position, the
\* largest value similarity_fn has returned for it so far.
MaxItems == 3
PosInf == 1000
NegInf == -1000
NaN == 2000
NoIdx == 0
RelevanceValues == {5, 9}
SimValues == {-5, 0, 5, PosInf}
LambdaValues == {-2, 0, 7, 10, 13}
LimitValues == {-1, 0, 2, MaxItems + 1}

\* float comparison: every comparison with NaN is false
fgt(a, b) == a # NaN /\ b # NaN /\ a > b
feq(a, b) == a # NaN /\ b # NaN /\ a = b

\* line 251: lam = max(0.0, min(1.0, lambda_weight))
clamp_lambda(l) == IF l > 10 THEN 10 ELSE IF l < 0 THEN 0 ELSE l

\* a score with the two weights exchanged
mmr_score_swapped(lam, rel, diversity, first) ==
  IF first THEN 10 * rel
  ELSE IF diversity = PosInf
       THEN (IF lam = 0 THEN NaN ELSE NegInf)
       ELSE (10 - lam) * rel - lam * diversity

\* lines 261-265: the score of one remaining item.  diversity is 0 or more,
\* or +inf; (1 - lam) * inf is inf, or NaN when lam = 1
mmr_score(lam, rel, diversity, first) ==
  IF first THEN 10 * rel
  ELSE IF diversity = PosInf
       THEN (IF lam = 10 THEN NaN ELSE NegInf)
       ELSE lam * rel - (10 - lam) * diversity

\* a scan that prefers the later of two items of equal score
RECURSIVE pick_best_last(_, _, _, _)
pick_best_last(scores, rem, best_idx, best_score) ==
  IF rem = <<>> THEN best_idx
  ELSE LET idx == Head(rem)
           take == \/ fgt(scores[idx], best_score)
                   \/ (feq(scores[idx], best_score) /\ best_idx # NoIdx)
       IN pick_best_last(scores, Tail(rem),
                         IF take THEN idx ELSE best_idx,
                         IF take THEN scores[idx] ELSE best_score)

\* lines 257-270: the scan of remaining_idx for the best score
RECURSIVE pick_best(_, _, _, _)
pick_best(scores, rem, best_idx, best_score) ==
  IF rem = <<>> THEN best_idx
  ELSE LET idx == Head(rem)
           take == \/ fgt(scores[idx], best_score)
                   \/ (feq(scores[idx], best_score) /\ best_idx # NoIdx
                       /\ idx < best_idx)
       IN pick_best(scores, Tail(rem),
                    IF take THEN idx ELSE best_idx,
                    IF take THEN scores[idx] ELSE best_score)

\* list.remove(x) on a list without repeats
remove(q, x) == SelectSeq(q, LAMBDA y : y # x)

\* the scores the scan of one iteration compares
iteration_scores ==
  [idx \in 1..Len(args.relevance) |->
     mmr_score(clamp_lambda(args.lambda_weight), args.relevance[idx],
               result.max_sim_to_selected[idx], result.selected = <<>>)]

\* a loop condition that admits one iteration too many
loop_continues_once_more ==
  result.remaining_idx # <<>> /\ Len(result.selected) <= args.limit

\* line 257: while remaining_idx and len(selected) < limit
loop_continues ==
  result.remaining_idx # <<>> /\ Len(result.selected) < args.limit

mmr_frame ==
  UNCHANGED <<videos, assets, objects, q_videos, dlq_videos, q_emails, lock,
              ttl, attempts, pc, job, loc, del_pc, nfinalize, ndelete, raised,
              succeeded, notifier_vars, enrich_vars, args>>

\* lines 246-255: the early return, or the loop's initial variables
mmr_enter ==
  /\ result.at = "call"
  /\ LET n == Len(args.relevance) IN
     result' = IF args.limit <= 0 \/ n = 0
               THEN [result EXCEPT !.at = "done"]
               ELSE [at |-> "loop",
                     selected |-> <<>>,
                     remaining_idx |-> [i \in 1..n |-> i],
                     max_sim_to_selected |-> [i \in 1..n |-> 0],
                     seen_max |-> [i \in 1..n |-> NegInf]]
  /\ mmr_frame

\* lines 257-283: one iteration of the while loop
mmr_select ==
  /\ result.at = "loop"
  /\ loop_continues
  /\ LET best_idx == pick_best(iteration_scores, result.remaining_idx,
                               NoIdx, NegInf)
         rest == remove(result.remaining_idx, best_idx)
     IN IF best_idx = NoIdx
        THEN result' = [result EXCEPT !.at = "done"]
        ELSE \E sim \in [{rest[i] : i \in 1..Len(rest)} -> SimValues] :
               result' =
                 [at |-> "loop",
                  selected |-> Append(result.selected, best_idx),
                  remaining_idx |-> rest,
                  max_sim_to_selected |->
                    [i \in 1..Len(args.relevance) |->
                       IF i \in DOMAIN sim
                          /\ fgt(sim[i], result.max_sim_to_selected[i])
                       THEN sim[i] ELSE result.max_sim_to_selected[i]],
                  seen_max |->
                    [i \in 1..Len(args.relevance) |->
                       IF i \in DOMAIN sim /\ sim[i] > result.seen_max[i]
                       THEN sim[i] ELSE result.seen_max[i]]]
  /\ mmr_frame

\* line 257 and 285: the loop condition fails and selected is returned
mmr_return ==
  /\ result.at = "loop"
  /\ ~loop_continues
  /\ result' = [result EXCEPT !.at = "done"]
  /\ mmr_frame

\* a call with up to MaxItems items
InitMMR ==
  /\ \E n \in 0..MaxItems :
       \E rel \in [1..n -> RelevanceValues], l \in LambdaValues,
          k \in LimitValues :
         args = [relevance |-> rel, lambda_weight |-> l, limit |-> k]
  /\ result = [at |-> "call", selected |-> <<>>, remaining_idx |-> <<>>,
               max_sim_to_selected |-> <<>>, seen_max |-> <<>>]
  /\ videos = [v \in Videos |-> NoRow]
  /\ assets = [v \in Videos |-> {}]
  /\ objects = [v \in Videos |-> {"raw"}]
  /\ q_emails = <<>>
  /\ enrichment = FALSE
  /\ WorkersIdle
  /\ NotifiersIdle
  /\ NoRequests
  /\ NothingEnriched

NextMMR == mmr_enter \/ mmr_select \/ mmr_return

SpecMMR == InitMMR /\ [][NextMMR]_vars

\* ------------------------------------------------- get_recommendations
\* The lane blend of get_recommendations (lines 1002-1058) over the lengths
\* of the two shortlists.  args is (os_available, graph_available,
\* target_count); result holds the quotas, the lengths of the two selections
\* and of the final list.
TARGET_TOTAL_RECOMMENDATIONS == 100
OS_LANE_QUOTA == 70
GRAPH_LANE_QUOTA == 30
MaxShortlist == 110
TargetCounts == {0, 1, TARGET_TOTAL_RECOMMENDATIONS,
                 2 * TARGET_TOTAL_RECOMMENDATIONS}

\* Python's min of two numbers
min(a, b) == IF b < a THEN b ELSE a

\* a backfill that only makes up for a short OS lane
backfill_for_os_only(os_available, graph_available) ==
  IF os_available < OS_LANE_QUOTA
  THEN [os_quota |-> os_available,
        graph_quota |->
          min(GRAPH_LANE_QUOTA + (OS_LANE_QUOTA - os_available),
              graph_available)]
  ELSE [os_quota |-> OS_LANE_QUOTA, graph_quota |-> GRAPH_LANE_QUOTA]

\* a backfill that hands over the whole quota instead of the shortfall
backfill_whole_quota(os_available, graph_available) ==
  IF os_available < OS_LANE_QUOTA
  THEN [os_quota |-> os_available,
        graph_quota |-> min(GRAPH_LANE_QUOTA + OS_LANE_QUOTA, graph_available)]
  ELSE IF graph_available < GRAPH_LANE_QUOTA
  THEN [os_quota |-> min(OS_LANE_QUOTA + GRAPH_LANE_QUOTA, os_available),
        graph_quota |-> graph_available]
  ELSE [os_quota |-> OS_LANE_QUOTA, graph_quota |-> GRAPH_LANE_QUOTA]

\* lines 1005-1016: the quotas after backfill
backfill(os_available, graph_available) ==
  IF os_available < OS_LANE_QUOTA
  THEN [os_quota |-> os_available,
        graph_quota |->
          min(GRAPH_LANE_QUOTA + (OS_LANE_QUOTA - os_available),
              graph_available)]
  ELSE IF graph_available < GRAPH_LANE_QUOTA
  THEN [os_quota |->
          min(OS_LANE_QUOTA + (GRAPH_LANE_QUOTA - graph_available),
              os_available),
        graph_quota |-> graph_available]
  ELSE [os_quota |-> OS_LANE_QUOTA, graph_quota |-> GRAPH_LANE_QUOTA]

\* len(shortlist[:quota]) for a list of n items and quota >= 0
slice_len(n, quota) == min(quota, n)

\* the number of iterations of max_marginal_relevance's loop on n items
\* whose scores and similarities are finite: one item per iteration while
\* items remain and fewer than limit are selected (lines 246-247, 257)
mmr_len(n, limit) == IF limit <= 0 \/ n = 0 THEN 0 ELSE min(limit, n)

blend_frame ==
  UNCHANGED <<videos, assets, objects, q_videos, dlq_videos, q_emails, lock,
              ttl, attempts, pc, job, loc, del_pc, nfinalize, ndelete, raised,
              succeeded, notifier_vars, enrich_vars, args>>

\* lines 1002-1016
blend_quotas ==
  /\ result.at = "call"
  /\ LET q == backfill(args.os_available, args.graph_available) IN
     result' = [result EXCEPT !.at = "select", !.os_quota = q.os_quota,
                              !.graph_quota = q.graph_quota]
  /\ blend_frame

\* lines 1018-1049: the two slices and the unified pool
blend_select ==
  /\ result.at = "select"
  /\ result' = [result EXCEPT
       !.at = "mmr",
       !.os_selected = slice_len(args.os_available, result.os_quota),
       !.graph_selected = slice_len(args.graph_available, result.graph_quota)]
  /\ blend_frame

\* lines 1051-1058: the global MMR over the unified pool
blend_mmr ==
  /\ result.at = "mmr"
  /\ result' = [result EXCEPT
       !.at = "done",
       !.final_ordered = mmr_len(result.os_selected + result.graph_selected,
                                 args.target_count)]
  /\ blend_frame

InitBlend ==
  /\ \E os \in 0..MaxShortlist, graph \in 0..MaxShortlist, t \in TargetCounts :
       args = [os_available |-> os, graph_available |-> graph,
               target_count |-> t]
  /\ result = [at |-> "call", os_quota |-> OS_LANE_QUOTA,
               graph_quota |-> GRAPH_LANE_QUOTA, os_selected |-> 0,
               graph_selected |-> 0, final_ordered |-> 0]
  /\ videos = [v \in Videos |-> NoRow]
  /\ assets = [v \in Videos |-> {}]
  /\ objects = [v \in Videos |-> {"raw"}]
  /\ q_emails = <<>>
  /\ enrichment = FALSE
  /\ WorkersIdle
  /\ NotifiersIdle
  /\ NoRequests
  /\ NothingEnriched

NextBlend == blend_quotas \/ blend_select \/ blend_mmr

SpecBlend == InitBlend /\ [][NextBlend]_vars

\* ------------------------------------------------- worker._chunk_segments
\* _chunk_segments (worker.py 352-403) as one step per input segment.  A
\* segment is its text (the numbers of leading blanks and of characters
\* that strip() keeps) with its start and end; a chunk's text is the list of
\* the segments joined in it by single spaces.  args is the segment list,
\* result the loop's variables.
MaxSegments == 3
min_len == 80
max_len == 200
NoTime == -1
SegmentTexts == {[lead |-> l, body |-> b] : l \in {0, 1}, b \in {0, 40, 79, 120, 250}}
SegmentTimes == {<<0, 0>>, <<0, 2>>, <<2, 3>>}

\* str.strip() and len(): the characters kept
strip_len(text) == text.body

\* len() of segment texts joined by single spaces
RECURSIVE joined_len(_)
joined_len(idxs) ==
  IF idxs = <<>> THEN 0
  ELSE strip_len(args[Head(idxs)].text)
       + (IF Tail(idxs) = <<>> THEN 0 ELSE 1 + joined_len(Tail(idxs)))

\* Python's "x or y" on a float or None: 0.0 and None are false
py_or(x, y) == IF x = NoTime \/ x = 0 THEN y ELSE x

\* a chunk emitted whatever its length reaches
emit(r, start_seconds, end_seconds) ==
  Append(r.chunks, [start_seconds |-> start_seconds,
                    end_seconds |-> end_seconds, text |-> r.cur_text])

\* lines 357-393: the loop body for segment i
chunk_segment(r, i) ==
  LET seg == args[i]
      s == seg.start
      e == seg.end
      cur_start == IF r.cur_start = NoTime THEN s ELSE r.cur_start
      candidate == Append(r.cur_text, i)
  IN IF strip_len(seg.text) = 0 THEN r
     ELSE IF joined_len(candidate) <= max_len
     THEN IF joined_len(candidate) >= min_len
          THEN [r EXCEPT !.chunks = emit([r EXCEPT !.cur_text = candidate],
                                         cur_start, e),
                         !.cur_text = <<>>, !.cur_start = NoTime,
                         !.cur_end = NoTime]
          ELSE [r EXCEPT !.cur_text = candidate, !.cur_start = cur_start,
                         !.cur_end = e]
     ELSE [r EXCEPT !.chunks = IF r.cur_text # <<>>
                               THEN emit(r, cur_start, py_or(r.cur_end, s))
                               ELSE r.chunks,
                    !.cur_text = <<i>>, !.cur_start = s, !.cur_end = e]

chunk_frame ==
  UNCHANGED <<videos, assets, objects, q_videos, dlq_videos, q_emails, lock,
              ttl, attempts, pc, job, loc, del_pc, nfinalize, ndelete, raised,
              succeeded, notifier_vars, enrich_vars, args>>

\* one iteration of the for loop
chunk_step ==
  /\ result.at = "loop"
  /\ result.i <= Len(args)
  /\ result' = [chunk_segment(result, result.i) EXCEPT !.i = result.i + 1]
  /\ chunk_frame

\* lines 394-403: the text left over is the last chunk
chunk_return ==
  /\ result.at = "loop"
  /\ result.i > Len(args)
  /\ result' = [result EXCEPT
       !.at = "done",
       !.chunks = IF result.cur_text # <<>>
                  THEN emit(result, py_or(result.cur_start, 0),
                            py_or(result.cur_end, py_or(result.cur_start, 0)))
                  ELSE result.chunks]
  /\ chunk_frame

InitChunk ==
  /\ \E n \in 0..MaxSegments :
       \E texts \in [1..n -> SegmentTexts], times \in [1..n -> SegmentTimes] :
         args = [i \in 1..n |-> [text |-> texts[i], start |-> times[i][1],
                                 end |-> times[i][2]]]
  /\ result = [at |-> "loop", i |-> 1, chunks |-> <<>>, cur_text |-> <<>>,
               cur_start |-> NoTime, cur_end |-> NoTime]
  /\ videos = [v \in Videos |-> NoRow]
  /\ assets = [v \in Videos |-> {}]
  /\ objects = [v \in Videos |-> {"raw"}]
  /\ q_emails = <<>>
  /\ enrichment = FALSE
  /\ WorkersIdle
  /\ NotifiersIdle
  /\ NoRequests
  /\ NothingEnriched

NextChunk == chunk_step \/ chunk_return

SpecChunk == InitChunk /\ [][NextChunk]_vars

\* ------------------------------------------------- worker: fps and GOP
\* _parse_fps_from_probe and _derive_gop_2s (worker.py 106-128) on a probe
\* with one video stream.  A rate "N/D" is the pair <<N, D>>, a missing or
\* slash-less rate is <<>>, and fps is kept as the exact fraction <<N, D>>:
\* the float quotient rounds to the same integer, halves being floats.
\* args is the stream, result the parsed fps and the derived GOP.
MaxNum == 130
MaxDen == 4
NoRate == <<>>
FallbackFps == <<30, 1>>
AvgRates ==
  {NoRate, <<30000, 1001>>} \cup {<<n, d>> : n \in 0..MaxNum, d \in 0..MaxDen}
RRates == {NoRate, <<25, 1>>, <<1, 0>>}

\* lines 108-119: the first of avg_frame_rate, r_frame_rate with den > 0
parse_fps_from_probe(stream) ==
  IF stream.avg_frame_rate # NoRate /\ stream.avg_frame_rate[2] > 0
  THEN stream.avg_frame_rate
  ELSE IF stream.r_frame_rate # NoRate /\ stream.r_frame_rate[2] > 0
  THEN stream.r_frame_rate
  ELSE FallbackFps

\* Python's round(n / d) for d > 0: the nearest integer, a half to the even
py_round(n, d) ==
  LET q == n \div d
      r == n % d
  IN IF 2 * r < d THEN q
     ELSE IF 2 * r > d THEN q + 1
     ELSE IF q % 2 = 0 THEN q ELSE q + 1

\* a GOP that truncates fps * 2.0 instead of rounding it
derive_gop_truncating(fps) ==
  LET g == (2 * fps[1]) \div fps[2]
  IN IF g > 240 THEN 240 ELSE IF g < 24 THEN 24 ELSE g

\* lines 123-128: max(24, min(240, int(round(fps * 2.0))))
derive_gop_2s(fps) ==
  LET g == py_round(2 * fps[1], fps[2])
  IN IF g > 240 THEN 240 ELSE IF g < 24 THEN 24 ELSE g

gop_frame ==
  UNCHANGED <<videos, assets, objects, q_videos, dlq_videos, q_emails, lock,
              ttl, attempts, pc, job, loc, del_pc, nfinalize, ndelete, raised,
              succeeded, notifier_vars, enrich_vars, args>>

\* worker.py 535
gop_parse ==
  /\ result.at = "probe"
  /\ result' = [result EXCEPT !.at = "fps", !.fps = parse_fps_from_probe(args)]
  /\ gop_frame

\* worker.py 536
gop_derive ==
  /\ result.at = "fps"
  /\ result' = [result EXCEPT !.at = "done", !.gop = derive_gop_2s(result.fps)]
  /\ gop_frame

InitGop ==
  /\ \E a \in AvgRates, r \in RRates :
       args = [avg_frame_rate |-> a, r_frame_rate |-> r]
  /\ result = [at |-> "probe", fps |-> NoRate, gop |-> 0]
  /\ videos = [v \in Videos |-> NoRow]
  /\ assets = [v \in Videos |-> {}]
  /\ objects = [v \in Videos |-> {"raw"}]
  /\ q_emails = <<>>
  /\ enrichment = FALSE
  /\ WorkersIdle
  /\ NotifiersIdle
  /\ NoRequests
  /\ NothingEnriched

NextGop == gop_parse \/ gop_derive

SpecGop == InitGop /\ [][NextGop]_vars

\* ------------------------------------------------- extract.py
\* _normalize_result (134-197) and persist_result (221-348) on the topics
\* and tags of one LLM answer; entities are handled by the same code as
\* topics.  A string is [lead, upper, key]: leading blanks, upper case or
\* not, and the letters; weights are in tenths, NoWeight a weight that is
\* missing or not a number.  args is the raw item list; result holds the
\* normalized items and the catalog and join rows written.
MaxRawItems == 2
NoWeight == 99
RawStrings == {[lead |-> 1, upper |-> TRUE, key |-> "a"],
               [lead |-> 0, upper |-> FALSE, key |-> "a"],
               [lead |-> 0, upper |-> FALSE, key |-> "b"],
               [lead |-> 1, upper |-> FALSE, key |-> ""]}
RawWeights == {-5, 0, 10, 15, NoWeight}
ItemKinds == {"topic", "tag"}

\* str.strip() and str.lower()
strip(s) == [s EXCEPT !.lead = 0]
lower(s) == [s EXCEPT !.upper = FALSE]

\* a weight field that accepts every number
any_number(w) == w # NoWeight

\* Field(ge=0.0, le=1.0) of TopicItem, EntityItem and TagItem
Field_ge0_le1(w) == w # NoWeight /\ 0 <= w /\ w <= 10

\* TopicItem(**it).dict() / TagItem(**it).dict(): the validator's canonical
\* name, for the items that pass validation
validated(raw) ==
  LET ok == SelectSeq(raw, LAMBDA it : Field_ge0_le1(it.weight))
  IN [i \in 1..Len(ok) |->
        [ok[i] EXCEPT !.canonical_name = lower(strip(ok[i].canonical_name))]]

\* lines 141-148: the first item of each canonical name, per list
RECURSIVE dedupe(_, _)
dedupe(items, seen) ==
  IF items = <<>> THEN <<>>
  ELSE LET k == <<Head(items).kind, Head(items).canonical_name>>
       IN IF k \in seen THEN dedupe(Tail(items), seen)
          ELSE <<Head(items)>> \o dedupe(Tail(items), seen \cup {k})

normalize_result(raw) == dedupe(validated(raw), {})

extract_frame ==
  UNCHANGED <<videos, assets, objects, q_videos, dlq_videos, q_emails, lock,
              ttl, attempts, pc, job, loc, del_pc, nfinalize, ndelete, raised,
              succeeded, notifier_vars, enrich_vars, args>>

\* extract_from_transcript line 218
extract_normalize ==
  /\ result.at = "raw"
  /\ result' = [result EXCEPT !.at = "normalized",
                              !.items = normalize_result(args)]
  /\ extract_frame

\* persist_result 241-338 and the commit at 348: a catalog row per new
\* canonical name and a join row per item, items with an empty name skipped
persist_result ==
  /\ result.at = "normalized"
  /\ LET kept == SelectSeq(result.items,
                   LAMBDA it : lower(strip(it.canonical_name)).key # "")
         idx == 1..Len(kept)
     IN result' = [result EXCEPT
          !.at = "persisted",
          !.catalog = {[kind |-> kept[i].kind,
                        canonical_name |-> lower(strip(kept[i].canonical_name))]
                       : i \in idx},
          !.links = {[kind |-> kept[i].kind,
                      canonical_name |-> lower(strip(kept[i].canonical_name)),
                      weight |-> kept[i].weight] : i \in idx}]
  /\ extract_frame

InitExtract ==
  /\ \E n \in 0..MaxRawItems :
       \E kinds \in [1..n -> ItemKinds], names \in [1..n -> RawStrings],
          weights \in [1..n -> RawWeights] :
         args = [i \in 1..n |-> [kind |-> kinds[i],
                                 canonical_name |-> names[i],
                                 weight |-> weights[i]]]
  /\ result = [at |-> "raw", items |-> <<>>, catalog |-> {}, links |-> {}]
  /\ videos = [v \in Videos |-> NoRow]
  /\ assets = [v \in Videos |-> {}]
  /\ objects = [v \in Videos |-> {"raw"}]
  /\ q_emails = <<>>
  /\ enrichment = FALSE
  /\ WorkersIdle
  /\ NotifiersIdle
  /\ NoRequests
  /\ NothingEnriched

NextExtract == extract_normalize \/ persist_result

SpecExtract == InitExtract /\ [][NextExtract]_vars

\* ------------------------------------- worker.py 559-617, step by step
\* the three artifact steps of one run with what each step saw and did:
\* result.steps holds, per step taken, whether its object was in the store
\* when the step checked and whether the step produced and uploaded its
\* files; result.overwritten the stored objects a step put again.
ArtifactKeys == <<"hls720", "hls480", "poster">>
ArtifactFiles == [hls720 |-> HlsFiles["hls720"], hls480 |-> HlsFiles["hls480"],
                  poster |-> {"poster"}]

skip_frame ==
  UNCHANGED <<videos, assets, q_videos, dlq_videos, q_emails, lock,
              ttl, attempts, pc, job, loc, del_pc, nfinalize, ndelete, raised,
              succeeded, notifier_vars, enrich_vars, args>>

\* `exists, _ = object_exists(...)`, then `if not exists:` transcode and
\* upload, `else:` log the skip
artifact_check_and_run ==
  /\ result.at <= Len(ArtifactKeys)
  /\ LET key == ArtifactKeys[result.at]
         v == args.video_id
     IN \E exists \in object_exists(v, key) :
          /\ objects' = [objects EXCEPT ![v] =
                           IF exists THEN @ ELSE @ \cup ArtifactFiles[key]]
          /\ result' = [result EXCEPT
               !.at = @ + 1,
               !.steps = @ \cup {[key |-> key, present |-> key \in objects[v],
                                  ran |-> ~exists]},
               !.overwritten = IF exists THEN @
                               ELSE @ \cup (ArtifactFiles[key] \cap objects[v])]
  /\ skip_frame

InitSkip ==
  /\ args \in [video_id : Videos]
  /\ result = [at |-> 1, steps |-> {}, overwritten |-> {}]
  /\ videos = [v \in Videos |-> NoRow]
  /\ assets = [v \in Videos |-> {}]
  /\ \E stored \in SUBSET (AllObjects \cup {"seg720", "seg480"}) :
       objects = [v \in Videos |-> stored \cup {"raw"}]
  /\ q_emails = <<>>
  /\ enrichment = FALSE
  /\ WorkersIdle
  /\ NotifiersIdle
  /\ NoRequests
  /\ NothingEnriched

NextSkip == artifact_check_and_run

SpecSkip == InitSkip /\ [][NextSkip]_vars

\* --------------------------- worker.py 484-816, the exits of one run
\* the try / except / finally skeleton of process_video for the run of
\* worker w1 on args.video_id: result.at is the position, result.tmpd the
\* scoped temp directory existing, result.stop the heartbeat's stop event,
\* result.path the way the run left the try block.  The lock key may expire
\* and be taken and released by another worker at any time.
ExitPaths == {"missing_video", "normal", "retry", "terminal", "handler_raised"}

exit_frame ==
  UNCHANGED <<videos, assets, objects, q_videos, dlq_videos, q_emails,
              attempts, pc, job, loc, del_pc, nfinalize, ndelete, raised,
              succeeded, notifier_vars, enrich_vars, args>>

\* release_lock line 63: `if val == worker_id`
owned_by_other(val, w) == val # w /\ val # None
owned(val, w) == val = w

\* lines 486-499: SET NX succeeds, the refresher thread is started
exit_acquire ==
  /\ result.at = "start"
  /\ acquire_lock(args.video_id, "w1")
  /\ lock' = [lock EXCEPT ![args.video_id] = "w1"]
  /\ ttl' = [ttl EXCEPT ![args.video_id] = 2]
  /\ result' = [result EXCEPT !.at = "load"]
  /\ exit_frame

\* lines 502-515 and 523-527: the row is loaded, and loaded again for its
\* raw key; `return` when it is missing
exit_load ==
  /\ result.at \in {"load", "reload"}
  /\ \E found \in BOOLEAN :
       result' = IF found
                 THEN [result EXCEPT
                         !.at = IF @ = "load" THEN "reload" ELSE "tmpdir"]
                 ELSE [result EXCEPT !.at = "finally", !.path = "missing_video"]
  /\ UNCHANGED <<lock, ttl>>
  /\ exit_frame

\* line 529: `with tempfile.TemporaryDirectory() as tmpd:`
exit_tmpdir ==
  /\ result.at = "tmpdir"
  /\ result' = [result EXCEPT !.at = "with", !.tmpd = TRUE]
  /\ UNCHANGED <<lock, ttl>>
  /\ exit_frame

\* lines 530-695: the body of the with block completes or raises; the
\* context manager removes the directory either way
exit_with ==
  /\ result.at = "with"
  /\ \E raises \in BOOLEAN :
       result' = [result EXCEPT !.at = IF raises THEN "except" ELSE "tail",
                                !.tmpd = FALSE]
  /\ UNCHANGED <<lock, ttl>>
  /\ exit_frame

\* lines 721-764, after the extraction that never raises: the asset
\* upsert, the status commit and the attempts reset, each completing or
\* raising
exit_tail ==
  /\ result.at \in {"tail", "finalize", "reset"}
  /\ \E raises \in BOOLEAN :
       result' =
         IF raises THEN [result EXCEPT !.at = "except"]
         ELSE IF result.at = "tail" THEN [result EXCEPT !.at = "finalize"]
         ELSE IF result.at = "finalize" THEN [result EXCEPT !.at = "reset"]
         ELSE [result EXCEPT !.at = "finally", !.path = "normal"]
  /\ UNCHANGED <<lock, ttl>>
  /\ exit_frame

\* lines 766-813: the handler increments the counter, then re-enqueues or
\* dead-letters; the INCR, the LPUSH or the commit of 'failed' may raise,
\* which leaves the handler for the finally clause
exit_handler ==
  /\ result.at \in {"except", "retry", "terminal"}
  /\ \E raises \in BOOLEAN, delay \in {NoDelay, worker_backoff_seconds[1]} :
       result' =
         IF raises
         THEN [result EXCEPT !.at = "finally", !.path = "handler_raised"]
         ELSE IF result.at = "except"
         THEN [result EXCEPT !.at = IF delay # NoDelay THEN "retry" ELSE "terminal"]
         ELSE [result EXCEPT !.at = "finally", !.path = result.at]
  /\ UNCHANGED <<lock, ttl>>
  /\ exit_frame

\* lines 814-816 and release_lock 62: refresher_stop.set(), then GET
exit_finally ==
  /\ result.at = "finally"
  /\ result' = [result EXCEPT !.at = "release", !.stop = TRUE,
                              !.val = lock[args.video_id]]
  /\ UNCHANGED <<lock, ttl>>
  /\ exit_frame

\* release_lock 63-64: DELETE when the value read was the worker's own
exit_release ==
  /\ result.at = "release"
  /\ IF owned(result.val, "w1")
     THEN /\ lock' = [lock EXCEPT ![args.video_id] = None]
          /\ ttl' = [ttl EXCEPT ![args.video_id] = 0]
     ELSE UNCHANGED <<lock, ttl>>
  /\ result' = [result EXCEPT !.at = "exit"]
  /\ exit_frame

\* _lock_refresher: PEXPIRE on the key until the stop event is seen
exit_heartbeat ==
  /\ result.at \notin {"start", "exit"}
  /\ ~result.stop
  /\ lock[args.video_id] # None
  /\ ttl[args.video_id] = 1
  /\ ttl' = [ttl EXCEPT ![args.video_id] = 2]
  /\ UNCHANGED <<lock, result>>
  /\ exit_frame

\* the clock advances: a fresh key ages, an aged one expires (PX of
\* acquire_lock); another worker's SET NX succeeds on the free key
exit_lock_tick ==
  /\ result.at \notin {"start", "exit"}
  /\ lock[args.video_id] # None
  /\ IF ttl[args.video_id] = 2
     THEN /\ ttl' = [ttl EXCEPT ![args.video_id] = 1]
          /\ UNCHANGED lock
     ELSE /\ ttl' = [ttl EXCEPT ![args.video_id] = 0]
          /\ lock' = [lock EXCEPT ![args.video_id] = None]
  /\ UNCHANGED result
  /\ exit_frame

exit_other_acquires ==
  /\ result.at \notin {"start", "exit"}
  /\ acquire_lock(args.video_id, "w2")
  /\ lock' = [lock EXCEPT ![args.video_id] = "w2"]
  /\ ttl' = [ttl EXCEPT ![args.video_id] = 2]
  /\ UNCHANGED result
  /\ exit_frame

InitExit ==
  /\ args \in [video_id : Videos]
  /\ result = [at |-> "start", tmpd |-> FALSE, stop |-> FALSE, path |-> None,
               val |-> None]
  /\ videos = [v \in Videos |-> NoRow]
  /\ assets = [v \in Videos |-> {}]
  /\ objects = [v \in Videos |-> {"raw"}]
  /\ q_emails = <<>>
  /\ enrichment = FALSE
  /\ WorkersIdle
  /\ NotifiersIdle
  /\ NoRequests
  /\ NothingEnriched

NextExit ==
  \/ exit_acquire
  \/ exit_load
  \/ exit_tmpdir
  \/ exit_with
  \/ exit_tail
  \/ exit_handler
  \/ exit_finally
  \/ exit_release
  \/ exit_heartbeat
  \/ exit_lock_tick
  \/ exit_other_acquires

SpecExit == InitExit /\ [][NextExit]_vars

\* ------------------------------ extract.py 241-265, 348: the topics
\* persist_result as database transactions (the entity and tag sections
\* repeat the topic section on their own tables).  result.catalog is the
\* committed topics table (canonical names, unique), result.links the
\* committed video_topics rows, result.tx the open transaction of each run:
\* the topics it inserted and flushed (new), its pending link writes (up),
\* the topic ids it linked at the start (have) and wants now (want).
\* args.res is the normalized result of each run, weights in thousandths.
\* Statements run under READ COMMITTED: a query sees committed rows and the
\* transaction's own flushed rows.
MaxResItems == 2
PersistRuns == {"r1", "r2"}
VideoOf == [r1 |-> "va", r2 |-> "vb"]
TopicKeys == {"a", "b"}
TopicItems == [key : TopicKeys \cup {""}, weight : {500, 554}]

\* results after _normalize_result: no canonical name twice
Results ==
  {s \in UNION {[1..n -> TopicItems] : n \in 0..MaxResItems} :
     \A i, j \in DOMAIN s : s[i].key = s[j].key => i = j}

\* Column(Numeric(3, 2)): the weight rounded to hundredths
numeric_3_2(w) == ((w + 5) \div 10) * 10

IdleTx == [at |-> "off", i |-> 0, found |-> FALSE, new |-> {}, up |-> {},
           have |-> {}, want |-> {}, applied |-> 0]

persist_frame ==
  UNCHANGED <<videos, assets, objects, q_videos, dlq_videos, q_emails, lock,
              ttl, attempts, pc, job, loc, del_pc, nfinalize, ndelete, raised,
              succeeded, notifier_vars, enrich_vars, args>>

\* lines 241-243: the topic ids video vid is linked to
topics_begin(r) ==
  /\ result.tx[r].at = "start"
  /\ result' = [result EXCEPT !.tx[r] =
       [@ EXCEPT !.at = "lookup", !.i = 1, !.new = {}, !.up = {}, !.want = {},
                 !.have = {l.key : l \in {m \in result.links :
                                            m.video = VideoOf[r]}}]]
  /\ persist_frame

\* lines 245-249: the next item; skip an empty canonical name, else query
\* the topic by canonical name
topic_lookup(r) ==
  LET tx == result.tx[r] IN
  /\ tx.at = "lookup"
  /\ result' = [result EXCEPT !.tx[r] =
       IF tx.i > Len(args.res[r]) THEN [tx EXCEPT !.at = "drop"]
       ELSE IF args.res[r][tx.i].key = "" THEN [tx EXCEPT !.i = @ + 1]
       ELSE [tx EXCEPT !.at = "insert",
                       !.found = args.res[r][tx.i].key
                                   \in result.catalog \cup tx.new]]
  /\ persist_frame

\* the INSERT of a canonical name another open transaction has inserted
\* waits for that transaction to end
insert_waits(r, cn) ==
  \E o \in PersistRuns \ {r} : cn \in result.tx[o].new

\* lines 250-265: a missing topic is added and flushed (the INSERT fails on
\* the unique canonical_name when the row was committed meanwhile: the
\* exception leaves persist_result and the session is rolled back), then
\* the link row is updated or added
topic_insert(r) ==
  LET tx == result.tx[r]
      it == args.res[r][tx.i]
  IN
  /\ tx.at = "insert"
  /\ tx.found \/ ~insert_waits(r, it.key)
  /\ result' = [result EXCEPT !.tx[r] =
       IF ~tx.found /\ it.key \in result.catalog
       THEN [tx EXCEPT !.at = "failed", !.new = {}, !.up = {}]
       ELSE [tx EXCEPT !.at = "lookup", !.i = @ + 1,
                       !.new = IF tx.found THEN @ ELSE @ \cup {it.key},
                       !.want = @ \cup {it.key},
                       !.up = @ \cup {[key |-> it.key, weight |-> it.weight]}]]
  /\ persist_frame

\* two transactions each wait for a name the other inserted: the database
\* aborts one of them
topic_deadlock(r) ==
  LET tx == result.tx[r] IN
  /\ tx.at = "insert" /\ ~tx.found
  /\ \E o \in PersistRuns \ {r} :
       /\ args.res[r][tx.i].key \in result.tx[o].new
       /\ result.tx[o].at = "insert" /\ ~result.tx[o].found
       /\ args.res[o][result.tx[o].i].key \in tx.new
  /\ result' = [result EXCEPT !.tx[r] =
                  [tx EXCEPT !.at = "failed", !.new = {}, !.up = {}]]
  /\ persist_frame

\* lines 267-272: the links to delete
to_drop_nothing(have, want) == {}
to_drop(have, want) == have \ want

\* lines 267-272 and 348: delete the links no longer wanted and commit
topics_commit(r) ==
  LET tx == result.tx[r]
      v == VideoOf[r]
      written == {u.key : u \in tx.up}
  IN
  /\ tx.at = "drop"
  /\ result' = [result EXCEPT
       !.catalog = @ \cup tx.new,
       !.links = {l \in @ : ~(l.video = v /\ l.key \in
                                 to_drop(tx.have, tx.want) \cup written)}
                 \cup {[video |-> v, key |-> u.key,
                        weight |-> numeric_3_2(u.weight)] : u \in tx.up},
       !.tx[r] = [tx EXCEPT !.at = "done", !.new = {}, !.up = {},
                            !.applied = @ + 1]]
  /\ persist_frame

\* a later run of the same video persists the same result again
persist_again(r) ==
  /\ result.tx[r].at = "done"
  /\ result.tx[r].applied < 2
  /\ args.twice
  /\ result' = [result EXCEPT !.tx[r].at = "start"]
  /\ persist_frame

PersistIdle ==
  /\ videos = [v \in Videos |-> NoRow]
  /\ assets = [v \in Videos |-> {}]
  /\ objects = [v \in Videos |-> {"raw"}]
  /\ q_emails = <<>>
  /\ enrichment = TRUE
  /\ WorkersIdle
  /\ NotifiersIdle
  /\ NoRequests
  /\ NothingEnriched

\* the rows of video_topics a store can hold for a committed catalog
StoredLinks(catalog) ==
  SUBSET {[video |-> v, key |-> k, weight |-> 500] :
            v \in {"va", "vb"}, k \in catalog}

\* one run persists a result for va, twice, over any earlier store
InitPersist ==
  /\ \E res \in Results, catalog \in SUBSET TopicKeys :
       \E links \in StoredLinks(catalog) :
         /\ args = [res |-> [r1 |-> res, r2 |-> <<>>], twice |-> TRUE,
                    catalog |-> catalog, links |-> links]
         /\ result = [catalog |-> catalog, links |-> links,
                      tx |-> [r \in PersistRuns |->
                                IF r = "r1" THEN [IdleTx EXCEPT !.at = "start"]
                                ELSE IdleTx]]
  /\ PersistIdle

NextPersist ==
  \/ \E r \in PersistRuns : topics_begin(r)
  \/ \E r \in PersistRuns : topic_lookup(r)
  \/ \E r \in PersistRuns : topic_insert(r)
  \/ \E r \in PersistRuns : topics_commit(r)
  \/ \E r \in PersistRuns : persist_again(r)

SpecPersist == InitPersist /\ [][NextPersist]_vars

\* two runs, for va and vb, persist their results concurrently
InitRace ==
  /\ \E res1 \in Results, res2 \in Results, catalog \in SUBSET TopicKeys :
       /\ args = [res |-> [r1 |-> res1, r2 |-> res2], twice |-> FALSE,
                  catalog |-> catalog, links |-> {}]
       /\ result = [catalog |-> catalog, links |-> {},
                    tx |-> [r \in PersistRuns |-> [IdleTx EXCEPT !.at = "start"]]]
  /\ PersistIdle

NextRace ==
  \/ \E r \in PersistRuns : topics_begin(r)
  \/ \E r \in PersistRuns : topic_lookup(r)
  \/ \E r \in PersistRuns : topic_insert(r)
  \/ \E r \in PersistRuns : topic_deadlock(r)
  \/ \E r \in PersistRuns : topics_commit(r)

SpecRace == InitRace /\ [][NextRace]_vars

\* ----------------------- worker.py 696-753: what follows persistence
\* the extraction block and the rest of one run, with the stores it could
\* write: result.rows the committed join rows of the video, result.graph
\* the Video node and its edges in the graph store, result.doc the fields of
\* the video's document in the videos index.  The graph and the search
\* service are available.  args.res is the LLM result, or NoResult.
NoResult == <<[key |-> "", weight |-> -1]>>
neo4j_prominence_insert_th == 750
EnrichResults ==
  {s \in UNION {[1..n -> [key : TopicKeys, weight : {500, 800}]]
                  : n \in 0..MaxResItems} :
     \A i, j \in DOMAIN s : s[i].key = s[j].key => i = j}

enrich_frame ==
  UNCHANGED <<videos, assets, objects, q_videos, dlq_videos, q_emails, lock,
              ttl, attempts, pc, job, loc, del_pc, nfinalize, ndelete, raised,
              succeeded, notifier_vars, enrich_vars, args>>

\* lines 698-716: extract_from_transcript, then persist_result inside its
\* own try; a failure of either is logged.  Nothing else is called on the
\* result.
extract_and_persist ==
  /\ result.at = "extract"
  /\ \E commits \in BOOLEAN :
       result' =
         IF args.res = NoResult \/ ~commits
         THEN [result EXCEPT !.at = "finalize"]
         ELSE [result EXCEPT !.at = "finalize", !.persisted = TRUE,
                 !.rows = {[key |-> args.res[i].key,
                            weight |-> numeric_3_2(args.res[i].weight)]
                           : i \in DOMAIN args.res}]
  /\ enrich_frame

\* lines 721-753: asset upsert, status commit, then index_video_metadata,
\* a partial update of title, description, user, dates, duration, thumbnail
\* and status (search.py 216-250), or its failure, logged
finalize_and_index ==
  /\ result.at = "finalize"
  /\ \E indexed \in BOOLEAN :
       result' = [result EXCEPT !.at = "done",
                    !.doc = IF indexed THEN @ \cup {"metadata"} ELSE @]
  /\ enrich_frame

InitEnrich ==
  /\ args \in [res : EnrichResults \cup {NoResult}]
  /\ \E doc \in SUBSET {"metadata"} :
       result = [at |-> "extract", persisted |-> FALSE, rows |-> {},
                 graph |-> [video |-> FALSE, edges |-> {}], doc |-> doc]
  /\ PersistIdle

NextEnrich == extract_and_persist \/ finalize_and_index

SpecEnrich == InitEnrich /\ [][NextEnrich]_vars

\* ---------------------------------------------------------------- lanes
\* recommendations.py, the two lanes and their blend by video id.  args is
\* (bm25_hits, walk_rows, history, target_count): the _id of each OpenSearch
\* hit and the id of each walk row ("" for a missing id), the ids of the seed
\* history, and the caller's target_count.  result holds the shortlists of
\* ids and the RecommendationResult.
MaxHits == 2
LaneIds == {"v1", "v2", "v3"}
RawIds == LaneIds \cup {""}
HitLists == UNION {[1..n -> RawIds] : n \in 0..MaxHits}
LaneTargets == {1, TARGET_TOTAL_RECOMMENDATIONS}

ListIds(q) == {q[i] : i \in 1..Len(q)}

\* the loop shared by both builders over the first n rows: a row is kept
\* unless its id is missing, already seen, or excluded
RECURSIVE keep_first(_, _, _)
keep_first(rows, n, excludes) ==
  IF n = 0 THEN <<>>
  ELSE LET prev == keep_first(rows, n - 1, excludes)
           vid == rows[n] IN
       IF vid = "" \/ vid \in ListIds(prev) \/ vid \in excludes
       THEN prev
       ELSE Append(prev, vid)

\* lines 587-610
build_candidates_from_bm25(bm25_hits) ==
  keep_first(bm25_hits, Len(bm25_hits), {})

\* a builder that forgets the exclusions
graph_candidates_unfiltered(walk_rows, exclude_video_ids) ==
  keep_first(walk_rows, Len(walk_rows), {})

\* lines 841-867
graph_build_candidates_from_walks(walk_rows, exclude_video_ids) ==
  keep_first(walk_rows, Len(walk_rows), exclude_video_ids)

\* the lists max_marginal_relevance can return for the items of pool and a
\* limit: limit items (or all of them), each index taken once, in an order
\* the scores decide
mmr_orders(pool, limit) ==
  LET k == mmr_len(Len(pool), limit) IN
  {[i \in 1..k |-> pool[f[i]]] :
     f \in {g \in [1..k -> 1..Len(pool)] :
              \A i, j \in 1..k : g[i] = g[j] => i = j}}

\* the sub-lists a filter can keep
kept_lists(q) ==
  {keep_first(q, Len(q), LaneIds \ S) : S \in SUBSET ListIds(q)}

\* lines 653-719, run_opensearch_lane: candidates, sort, MMR shortlist
lanes_os ==
  /\ result.at = "os"
  /\ LET candidates == build_candidates_from_bm25(args.bm25_hits) IN
     \E shortlist \in mmr_orders(candidates,
                                 min(2 * OS_LANE_QUOTA, Len(candidates))) :
       result' = [result EXCEPT !.at = "graph", !.os_shortlist = shortlist]
  /\ blend_frame

\* lines 870-941, run_graph_lane with os_top_ids of line 996: exclusions,
\* candidates, cosine filter, sort, MMR shortlist
lanes_graph ==
  /\ result.at = "graph"
  /\ LET os_top_ids == SubSeq(result.os_shortlist, 1,
                              min(2 * OS_LANE_QUOTA, Len(result.os_shortlist)))
         exclude_ids == args.history \cup ListIds(os_top_ids)
         candidates ==
           graph_build_candidates_from_walks(args.walk_rows, exclude_ids) IN
     \E filtered \in kept_lists(candidates) :
       \E shortlist \in mmr_orders(filtered,
                                   min(2 * GRAPH_LANE_QUOTA, Len(filtered))) :
         result' = [result EXCEPT !.at = "blend",
                                  !.graph_candidates = candidates,
                                  !.graph_shortlist = shortlist]
  /\ blend_frame

\* lines 1002-1082, get_recommendations: quotas, slices, unified pool,
\* global MMR, video_ids, sources and the two counts
lanes_blend ==
  /\ result.at = "blend"
  /\ LET q == backfill(Len(result.os_shortlist), Len(result.graph_shortlist))
         os_selected ==
           SubSeq(result.os_shortlist, 1,
                  slice_len(Len(result.os_shortlist), q.os_quota))
         graph_selected ==
           SubSeq(result.graph_shortlist, 1,
                  slice_len(Len(result.graph_shortlist), q.graph_quota))
         unified_pool ==
           [i \in 1..Len(os_selected) |->
              [video_id |-> os_selected[i], lane_source |-> "os"]]
           \o [i \in 1..Len(graph_selected) |->
              [video_id |-> graph_selected[i], lane_source |-> "graph"]] IN
     \E final_ordered \in mmr_orders(unified_pool, args.target_count) :
       LET video_ids ==
             [i \in 1..Len(final_ordered) |-> final_ordered[i].video_id]
           last(v) == CHOOSE i \in 1..Len(final_ordered) :
                        /\ final_ordered[i].video_id = v
                        /\ \A j \in (i + 1)..Len(final_ordered) :
                             final_ordered[j].video_id # v
           sources == [v \in ListIds(video_ids) |->
                         final_ordered[last(v)].lane_source] IN
       result' = [result EXCEPT
         !.at = "done",
         !.video_ids = video_ids,
         !.sources = sources,
         !.os_count =
           Cardinality({v \in DOMAIN sources : sources[v] = "os"}),
         !.graph_count =
           Cardinality({v \in DOMAIN sources : sources[v] = "graph"})]
  /\ blend_frame

InitLanes ==
  /\ \E hits \in HitLists, rows \in HitLists, h \in SUBSET LaneIds,
        t \in LaneTargets :
       args = [bm25_hits |-> hits, walk_rows |-> rows, history |-> h,
               target_count |-> t]
  /\ result = [at |-> "os", os_shortlist |-> <<>>, graph_candidates |-> <<>>,
               graph_shortlist |-> <<>>, video_ids |-> <<>>,
               sources |-> <<>>, os_count |-> 0, graph_count |-> 0]
  /\ videos = [v \in Videos |-> NoRow]
  /\ assets = [v \in Videos |-> {}]
  /\ objects = [v \in Videos |-> {"raw"}]
  /\ q_emails = <<>>
  /\ enrichment = FALSE
  /\ WorkersIdle
  /\ NotifiersIdle
  /\ NoRequests
  /\ NothingEnriched

NextLanes == lanes_os \/ lanes_graph \/ lanes_blend

SpecLanes == InitLanes /\ [][NextLanes]_vars

\* ------------------------------------------------------------ projection
\* recommendations.py, _graph_random_walk_stream run by concurrent requests
\* against one GDS graph catalog.  args says which query has seed ids;
\* result holds the clock in milliseconds, the catalog (the owner of each
\* projection name, None when there is none) and each query's position,
\* graph_name and what it met.
MaxMs == 1
WalkQueries == {"q1", "q2"}
WalkNames == [prefix : {"rec_walk_"}, ms : 0..MaxMs]

\* line 757
graph_name_at(stamp) == [prefix |-> "rec_walk_", ms |-> stamp]

NoWalk == [at |-> "call", graph_name |-> None, created |-> FALSE,
           failed_on |-> None, walked |-> None, lost |-> FALSE,
           dropped |-> None]

\* lines 729-757: no seeds returns at once, else the name is taken from
\* the clock
walk_name(q) ==
  /\ result.q[q].at = "call"
  /\ IF args.seed_ids[q]
     THEN result' = [result EXCEPT
            !.q[q].at = "project",
            !.q[q].graph_name = graph_name_at(result.now)]
     ELSE result' = [result EXCEPT !.q[q].at = "returned"]
  /\ blend_frame

\* lines 761-794: gds.graph.project raises when the name is taken (or the
\* session fails); the except at 829 logs and control reaches finally
walk_project(q) ==
  /\ result.q[q].at = "project"
  /\ LET name == result.q[q].graph_name IN
     \/ /\ result.catalog[name] = None
        /\ result' = [result EXCEPT !.catalog[name] = q,
                                    !.q[q].created = TRUE,
                                    !.q[q].at = "stream"]
     \/ /\ result.catalog[name] # None
        /\ result' = [result EXCEPT !.q[q].failed_on = result.catalog[name],
                                    !.q[q].at = "finally"]
     \/ result' = [result EXCEPT !.q[q].at = "finally"]
  /\ blend_frame

\* lines 796-828: gds.randomWalk.stream on graph_name raises when the
\* catalog has no such projection
walk_stream(q) ==
  /\ result.q[q].at = "stream"
  /\ LET name == result.q[q].graph_name IN
     IF result.catalog[name] = None
     THEN result' = [result EXCEPT !.q[q].lost = TRUE,
                                   !.q[q].at = "finally"]
     ELSE \/ result' = [result EXCEPT !.q[q].walked = result.catalog[name],
                                      !.q[q].at = "finally"]
          \/ result' = [result EXCEPT !.q[q].at = "finally"]
  /\ blend_frame

\* lines 831-838: finally drops graph_name, whoever projected it; a drop of
\* a missing projection raises and is passed over
walk_drop(q) ==
  /\ result.q[q].at = "finally"
  /\ LET name == result.q[q].graph_name IN
     IF result.catalog[name] = None
     THEN result' = [result EXCEPT !.q[q].at = "returned"]
     ELSE result' = [result EXCEPT !.catalog[name] = None,
                                   !.q[q].dropped = result.catalog[name],
                                   !.q[q].at = "returned"]
  /\ blend_frame

\* a millisecond passes
walk_clock ==
  /\ result.now < MaxMs
  /\ result' = [result EXCEPT !.now = result.now + 1]
  /\ blend_frame

InitWalk ==
  /\ args \in [seed_ids : [WalkQueries -> BOOLEAN]]
  /\ result = [now |-> 0, catalog |-> [n \in WalkNames |-> None],
               q |-> [q \in WalkQueries |-> NoWalk]]
  /\ videos = [v \in Videos |-> NoRow]
  /\ assets = [v \in Videos |-> {}]
  /\ objects = [v \in Videos |-> {"raw"}]
  /\ q_emails = <<>>
  /\ enrichment = FALSE
  /\ WorkersIdle
  /\ NotifiersIdle
  /\ NoRequests
  /\ NothingEnriched

NextWalk ==
  \/ \E q \in WalkQueries :
       walk_name(q) \/ walk_project(q) \/ walk_stream(q) \/ walk_drop(q)
  \/ walk_clock

SpecWalk == InitWalk /\ [][NextWalk]_vars

\* ------------------------------------------------------------- claims
Range(q) == {q[i] : i \in 1..Len(q)}

\* workers between a successful acquire_lock and the return of release_lock
InRun(v) == {w \in Workers : pc[w] \in BodyPcs \cup {"finally", "release"}
                             /\ Vid(w) = v}

\* C1: at most one worker at a time is inside the pipeline body of
\* process_video for a given video id.
MutualExclusion == \A v \in Videos : Cardinality(InRun(v)) <= 1

\* C2: every video row whose status is 'ready' has the three required
\* objects in the object store.
ReadyHasObjects ==
  \A v \in Videos : videos[v].status = "ready" => RequiredObjects \subseteq objects[v]

\* the transitions of videos.status the specification allows; the creation
\* and the deletion of the row are not changes of its status
AllowedTransition(a, b) ==
  \/ a = b
  \/ a = "absent" \/ b = "absent"
  \/ a = "uploaded" /\ b = "processing"
  \/ a = "processing" /\ b = "ready"
  \/ b = "failed"

\* C3: every change of videos.status is uploaded->processing,
\* processing->ready, ready->ready or any->failed.
StatusTransitions ==
  [][\A v \in Videos : AllowedTransition(videos[v].status, videos'[v].status)]_vars

\* C4 (its safety half): no video is left 'uploaded' or 'processing' with
\* no message for it in q:videos and no worker holding a message for it.
NoStrandedVideo ==
  \A v \in Videos :
    videos[v].status \in {"uploaded", "processing"} =>
      \/ \E i \in 1..Len(q_videos) : q_videos[i].video_id = v
      \/ \E w \in Workers : Vid(w) = v

\* video_ready jobs pushed to q:emails for v (nothing pops q:emails in Spec)
EmailJobs(v) == Cardinality({i \in 1..Len(q_emails) : q_emails[i] = v})

\* C5: with two messages for the same video in q:videos dequeued by two
\* workers, only one of them runs the pipeline and at most one video_ready
\* job is pushed to q:emails.
IdempotentFinalize ==
  \A v \in Videos :
    nfinalize <= 2 /\ ndelete = 0 => EmailJobs(v) <= 1

\* C9: a run that found no row for its message has, by the time it
\* returns, pushed an entry for it to dlq:videos.
MissingRowDeadLettered ==
  \A w \in Workers :
    pc[w] = "release" /\ ~loc[w].found => Vid(w) \in Range(dlq_videos)

\* C10: a 'failed' video has a non-null error and an entry in dlq:videos.
FailedHasError ==
  \A v \in Videos :
    videos[v].status = "failed" =>
      videos[v].error # None /\ v \in Range(dlq_videos)
\* C6: whenever notified_at is non-null, send_email has returned exactly
\* once for the video.
NotifiedOnce ==
  \A v \in Videos : videos[v].notified_at # 0 => sent[v] = 1

\* C7 (its first half): notified_at changes only from null to a timestamp,
\* so at most once per video.
StampedOnce ==
  [][\A v \in Videos :
       videos'[v].notified_at # videos[v].notified_at => videos[v].notified_at = 0]_vars

\* C8 (its consequence): a video whose pipeline runs always raise is run at
\* most len(backoff)+1 times.
BoundedRetry ==
  \A v \in Videos : raised[v] <= Len(worker_backoff_seconds) + 1

\* C11: release_lock called by worker w removes lock:video:<id> only if the
\* key's value is w at the moment of removal: w never deletes a lock that
\* another worker owns.
OwnerOnlyRelease ==
  [][\A w \in Workers :
       pc[w] = "release" /\ pc'[w] = "idle" /\ lock[Vid(w)] \notin {None, w}
         => lock'[Vid(w)] = lock[Vid(w)]]_vars
\* the keys DELETE /videos/{id} addresses: the raw object and everything
\* under hls/{v}/ and thumbs/{v}/
DeletedKeys == {"raw", "poster"} \cup HlsFiles["hls720"] \cup HlsFiles["hls480"]

\* C12: when delete_video returns successfully for v, no asset, summary or
\* join row of v remains, none of the raw, hls/{v}/ and thumbs/{v}/ objects
\* remains, and the search index holds no document of v.
DeleteComplete ==
  [][\A v \in Videos :
       del_pc[v] = "db" /\ del_pc'[v] = "idle"
         => /\ assets'[v] = {}
            /\ ~join_rows'[v]
            /\ objects'[v] \cap DeletedKeys = {}
            /\ search_docs'[v] = {}]_vars
\* C13: a failure inside transcription, chunk indexing, VTT re-parse, LLM
\* extraction or persist_result does not leave the pipeline: the step from
\* the enrichment block always goes on to the asset upsert, with the
\* attempts counter, q:videos, dlq:videos and the status untouched.
BestEffortNeverFatal ==
  [][\A w \in Workers :
       pc[w] = "enrich" /\ pc'[w] # "enrich"
         => /\ pc'[w] = "upsert"
            /\ attempts' = attempts
            /\ q_videos' = q_videos
            /\ dlq_videos' = dlq_videos
            /\ videos'[Vid(w)].status = videos[Vid(w)].status]_vars

\* a video became ready in its first run although index_video_metadata,
\* transcription and extraction all failed
ReadyWithoutEnrichment ==
  \E v \in Videos :
    /\ enrichment
    /\ videos[v].status = "ready"
    /\ search_docs[v] = {} /\ ~join_rows[v] /\ "caption" \notin objects[v]
    /\ attempts[v] = 0 /\ dlq_videos = <<>> /\ nfinalize = 1 /\ ndelete = 0

MostRecent(q, n) == \A i \in 1..Len(q) : q[i] = n - i + 1

\* C15: whenever a dead-letter push completes (its LTRIM returns), the list
\* holds at most 10,000 entries, and they are the most recently pushed ones.
DlqCapped ==
  [][/\ (\E w \in Workers : pc[w] = "ltrim" /\ pc'[w] = "idle")
          => Len(dlq_videos') <= DlqCap /\ MostRecent(dlq_videos', args'.videos)
     /\ (\E n \in Notifiers : n_pc[n] = "ltrim" /\ n_pc'[n] = "idle")
          => Len(dlq_emails') <= DlqCap /\ MostRecent(dlq_emails', args'.emails)
    ]_vars

\* both lists were trimmed: more than 10,000 entries were pushed, every
\* push has completed, and exactly 10,000 are held
DlqTrimmed ==
  /\ args.videos > DlqCap /\ args.emails > DlqCap
  /\ \A w \in Workers : pc[w] = "idle"
  /\ \A n \in Notifiers : n_pc[n] = "idle"
  /\ Len(dlq_videos) = DlqCap /\ Len(dlq_emails) = DlqCap

Min(a, b) == IF a < b THEN a ELSE b

\* the input positions a selection step chose from, and the one it chose
Chosen == result'.selected[Len(result'.selected)]
Selects ==
  /\ result.at = "loop" /\ result'.at = "loop"
  /\ Len(result'.selected) = Len(result.selected) + 1

\* C16: max_marginal_relevance returns no items when limit <= 0 or the input
\* is empty, and otherwise exactly min(limit, len(items)) items, from
\* pairwise distinct input positions, for any similarity function.
MmrLength ==
  result.at = "done"
    => /\ Len(result.selected) =
            IF args.limit <= 0 THEN 0
            ELSE Min(args.limit, Len(args.relevance))
       /\ \A i, j \in 1..Len(result.selected) :
            i # j => result.selected[i] # result.selected[j]

\* the place of input position a in the input sorted by relevance,
\* descending, equal relevance in input order
SortedPlace(a) ==
  1 + Cardinality({b \in 1..Len(args.relevance) :
                     \/ args.relevance[b] > args.relevance[a]
                     \/ (args.relevance[b] = args.relevance[a] /\ b < a)})

\* C17: with lambda = 1 the output is the first min(limit, n) items of the
\* input sorted by relevance descending, equal relevance in input order, for
\* every similarity function.
MmrLambdaOneSorts ==
  result.at = "done" /\ clamp_lambda(args.lambda_weight) = 10
    => /\ Len(result.selected) =
            IF args.limit <= 0 THEN 0
            ELSE Min(args.limit, Len(args.relevance))
       /\ \A k \in 1..Len(result.selected) :
            SortedPlace(result.selected[k]) = k

\* C18: with lambda = 0, at every selection step after the first the chosen
\* item has, among the remaining items, the least maximum similarity to the
\* items selected so far.
MmrLambdaZeroDiversifies ==
  [][Selects /\ clamp_lambda(args.lambda_weight) = 0 /\ result.selected # <<>>
       => \A i \in 1..Len(result.remaining_idx) :
            result.seen_max[Chosen] <= result.seen_max[result.remaining_idx[i]]
    ]_vars

\* C19: at every selection step no remaining item has a greater MMR score
\* than the chosen one, and none with an equal score has a lower index; and
\* relevance [0.9, 0.9, 0.5] with zero similarity, lambda 0.7 and limit 2
\* returns the first two items in input order.
MmrTieBreak ==
  /\ [][Selects
          => \A i \in 1..Len(result.remaining_idx) :
               LET r == result.remaining_idx[i] IN
               /\ ~fgt(iteration_scores[r], iteration_scores[Chosen])
               /\ feq(iteration_scores[r], iteration_scores[Chosen])
                    => Chosen <= r]_vars
  /\ [](/\ result.at = "done"
        /\ args = [relevance |-> <<9, 9, 5>>, lambda_weight |-> 7, limit |-> 2]
        /\ result.seen_max = <<NegInf, 0, 0>>
        => result.selected = <<1, 2>>)

\* the call of the example has returned, every similarity having been zero
MmrTieExample ==
  /\ result.at = "done"
  /\ args = [relevance |-> <<9, 9, 5>>, lambda_weight |-> 7, limit |-> 2]
  /\ result.seen_max = <<NegInf, 0, 0>>
  /\ result.selected = <<1, 2>>

\* similarity_fn has returned finite values only
FiniteSimilarity ==
  \A i \in 1..Len(result.seen_max) : result.seen_max[i] # PosInf

\* C16 as amended: the same, for similarity functions with finite values.
MmrLengthFinite ==
  result.at = "done" /\ FiniteSimilarity
    => /\ Len(result.selected) =
            IF args.limit <= 0 THEN 0
            ELSE Min(args.limit, Len(args.relevance))
       /\ \A i, j \in 1..Len(result.selected) :
            i # j => result.selected[i] # result.selected[j]

\* a call with three items and limit 2 returned two of them, the
\* similarities having been finite and not all zero
MmrReturnedLimit ==
  /\ result.at = "done"
  /\ Len(args.relevance) = 3 /\ args.limit = 2
  /\ Len(result.selected) = 2
  /\ FiniteSimilarity
  /\ \E i \in 1..3 : result.seen_max[i] = 5

\* C17 as amended: the same, for similarity functions with finite values.
MmrLambdaOneSortsFinite ==
  result.at = "done" /\ clamp_lambda(args.lambda_weight) = 10
  /\ FiniteSimilarity
    => /\ Len(result.selected) =
            IF args.limit <= 0 THEN 0
            ELSE Min(args.limit, Len(args.relevance))
       /\ \A k \in 1..Len(result.selected) :
            SortedPlace(result.selected[k]) = k

\* lambda = 1, relevance [0.5, 0.9, 0.9]: all three were returned in sorted
\* order although the third and the first were similar to the second
MmrSortedDespiteSimilarity ==
  /\ result.at = "done"
  /\ args.lambda_weight = 10
  /\ args.relevance = <<5, 9, 9>>
  /\ result.selected = <<2, 3, 1>>
  /\ result.seen_max = <<5, NegInf, 5>>

\* C20: after backfill the number of items taken from each lane is at most
\* that lane's shortlist length, the two takes sum to at most
\* OS_LANE_QUOTA + GRAPH_LANE_QUOTA, and the final list has at most
\* target_count items.
BackfillBounded ==
  /\ result.at \in {"mmr", "done"}
       => /\ result.os_selected <= args.os_available
          /\ result.graph_selected <= args.graph_available
          /\ result.os_selected + result.graph_selected
               <= OS_LANE_QUOTA + GRAPH_LANE_QUOTA
  /\ result.at = "done" => result.final_ordered <= args.target_count

\* the OS lane delivered 60 of its 70, the graph lane had 50: ten more were
\* taken from the graph lane and the final list has the 100
BackfillShifted ==
  /\ result.at = "done"
  /\ args = [os_available |-> 60, graph_available |-> 50,
             target_count |-> 100]
  /\ result.os_selected = 60 /\ result.graph_selected = 40
  /\ result.final_ordered = 100

\* C21: every chunk emitted by _chunk_segments has a text of at most 200
\* characters, also when a single segment is longer than that.
ChunkWithinMaxLen ==
  \A k \in 1..Len(result.chunks) : joined_len(result.chunks[k].text) <= max_len

\* the concatenation of the chunks' segment lists
RECURSIVE ChunkedSegments(_)
ChunkedSegments(chunks) ==
  IF chunks = <<>> THEN <<>>
  ELSE Head(chunks).text \o ChunkedSegments(Tail(chunks))

\* C22: the chunk texts joined by single spaces are the stripped non-empty
\* segment texts joined by single spaces, in order, and each chunk carries
\* the start of its first and the end of its last segment.
ChunksCoverSegments ==
  result.at = "done"
    => /\ ChunkedSegments(result.chunks)
            = SelectSeq([i \in 1..Len(args) |-> i],
                        LAMBDA i : strip_len(args[i].text) > 0)
       /\ \A k \in 1..Len(result.chunks) :
            LET c == result.chunks[k] IN
            /\ c.text # <<>>
            /\ c.start_seconds = args[c.text[1]].start
            /\ c.end_seconds = args[c.text[Len(c.text)]].end

\* the rate the GOP is to be derived from: the first N/D with D > 0, else 30
ProbedRate ==
  IF args.avg_frame_rate # NoRate /\ args.avg_frame_rate[2] > 0
  THEN args.avg_frame_rate
  ELSE IF args.r_frame_rate # NoRate /\ args.r_frame_rate[2] > 0
  THEN args.r_frame_rate
  ELSE <<30, 1>>

\* g is an integer nearest to 2 * N / D
NearestToDouble(g, rate) ==
  /\ (2 * g - 1) * rate[2] <= 4 * rate[1]
  /\ 4 * rate[1] <= (2 * g + 1) * rate[2]

\* C23: the derived GOP is an integer in [24, 240], equal to round(2 * fps)
\* clamped to that range; 30000/1001 gives 60, 60/1 gives 120 and the
\* invalid rate 1/0 (nothing else present) gives 60.
GopClamped ==
  result.at = "done"
    => /\ result.gop \in 24..240
       /\ \E g \in 0..(2 * MaxNum + 2) :
            /\ NearestToDouble(g, ProbedRate)
            /\ result.gop = IF g > 240 THEN 240 ELSE IF g < 24 THEN 24 ELSE g
       /\ args.avg_frame_rate = <<30000, 1001>> => result.gop = 60
       /\ args.avg_frame_rate = <<60, 1>> => result.gop = 120
       /\ args.avg_frame_rate = <<1, 0>> /\ args.r_frame_rate \in {NoRate, <<1, 0>>}
            => result.gop = 60

\* the NTSC rate 30000/1001 was parsed and gave a GOP of 60
GopNtsc ==
  /\ result.at = "done"
  /\ args.avg_frame_rate = <<30000, 1001>>
  /\ result.fps = <<30000, 1001>>
  /\ result.gop = 60

\* C24: every join row written by the enricher has its weight in [0, 1], and
\* every catalog row has a non-empty canonical_name that is its own
\* lowercase, trimmed form.
EnrichedRowsCanonical ==
  /\ \A l \in result.links : 0 <= l.weight /\ l.weight <= 10
  /\ \A c \in result.catalog :
       /\ c.canonical_name.key # ""
       /\ c.canonical_name = lower(strip(c.canonical_name))

\* two items were persisted, one of them given as " A" by the LLM
EnrichedTwoRows ==
  /\ result.at = "persisted"
  /\ Cardinality(result.links) = 2
  /\ \E i \in 1..Len(args) : args[i].canonical_name.upper

Clamp01(w) == IF w < 0 THEN 0 ELSE IF w > 10 THEN 10 ELSE w

\* C25: a well-formed item whose weight lies outside [0, 1] is kept with its
\* weight clamped to 0 or 1; of several items with the same canonical key
\* the first is kept.
NormalizeClamps ==
  result.at = "normalized"
    => \A i \in 1..Len(args) :
         LET key == <<args[i].kind, lower(strip(args[i].canonical_name))>>
             first == \A j \in 1..(i - 1) :
                        \/ args[j].weight = NoWeight
                        \/ <<args[j].kind,
                             lower(strip(args[j].canonical_name))>> # key
         IN args[i].weight # NoWeight /\ first
              => \E k \in 1..Len(result.items) :
                   /\ <<result.items[k].kind,
                        result.items[k].canonical_name>> = key
                   /\ result.items[k].weight = Clamp01(args[i].weight)

\* retry messages for v still in q:videos
RetriesQueued(v) ==
  {i \in 1..Len(q_videos) :
     q_videos[i].video_id = v /\ q_videos[i].reason = "retry"}

\* o is in the finally clause of a run that pushed a retry message and has
\* held lock:video:<id> since
FailingRunHoldsLock(o) ==
  /\ pc[o] = "finally"
  /\ loc[o].k \in 1..Len(worker_backoff_seconds)
  /\ lock[Vid(o)] = o

\* C26: a retry message is never discarded as lock_skip while the run that
\* pushed it still holds the lock: no worker skips the only retry message
\* of a video whose failing run has not yet released lock:video:<id>.
RetryNotLostToOwnLock ==
  [][\A w \in Workers :
       (/\ lock_skip(w)
        /\ job[w].reason = "retry"
        /\ RetriesQueued(Vid(w)) = {})
         => ~\E o \in Workers \ {w} : Vid(o) = Vid(w) /\ FailingRunHoldsLock(o)]_vars

\* C27: every re-arm of the lock TTL by a worker's heartbeat happens while
\* lock:video:<id> holds that worker's id; a heartbeat never extends a lock
\* owned by another worker.
HeartbeatOwnsLock ==
  [][\A w \in Workers : lock_refresh(w) => lock[Vid(w)] = w]_vars

\* C28: a run pushes a video_ready job to q:emails exactly when it set the
\* status to 'ready', the status it read just before was not 'ready' and
\* notified_at was null; a run on a video that is already 'ready' leaves
\* the status 'ready' and pushes no job.
EmailJobOnTransitionOnly ==
  [][\A w \in Workers :
       finalize_commit(w) /\ Exists(Vid(w)) =>
         /\ q_emails' # q_emails
              <=> /\ videos'[Vid(w)].status = "ready"
                  /\ loc[w].prev_status # "ready"
                  /\ videos[Vid(w)].notified_at = 0
         /\ q_emails' # q_emails => q_emails' = lpush(q_emails, Vid(w))
         /\ loc[w].prev_status = "ready"
              => videos'[Vid(w)].status = "ready" /\ q_emails' = q_emails]_vars

\* C29: attempts:video:<id> is cleared when processing reaches an outcome:
\* once a run has ended in the terminal failure that marked the video
\* 'failed', the counter is back at zero, so that the first exception of a
\* later run is attempt 1.
AttemptsClearedAtOutcome ==
  \A v \in Videos :
    (videos[v].status = "failed" /\ \A w \in Workers : Vid(w) # v)
      => attempts[v] = 0

\* the steps of the try block of process_video in program order
StageOrder == <<"probe", "hls720", "hls480", "thumb", "enrich", "upsert",
                "stat", "fin_read", "fin_commit", "reset">>
Stage(p) == CHOOSE i \in 1..Len(StageOrder) : StageOrder[i] = p
InStage(p) == \E i \in 1..Len(StageOrder) : StageOrder[i] = p

StepSkipExact ==
  /\ \A s \in result.steps : s.ran <=> ~s.present
  /\ (\A s \in result.steps : s.present) => result.overwritten = {}

NotifierFailurePolicy ==
  [][/\ \A v \in Videos : videos'[v].status = videos[v].status
     /\ \A n \in Notifiers :
          LET v == n_job[n] IN
          /\ n_pc[n] = "except" /\ n_pc'[n] # "except"
               => /\ email_attempts'[v] = email_attempts[v] + 1
                  /\ n_pc'[n] = IF email_attempts'[v] <= Len(worker_backoff_seconds)
                                THEN "retry" ELSE "terminal"
                  /\ UNCHANGED <<q_emails, dlq_emails>>
          /\ n_pc[n] = "retry" /\ n_pc'[n] # "retry"
               => /\ q_emails' = <<v>> \o q_emails
                  /\ UNCHANGED dlq_emails
                  /\ n_pc'[n] = "finally"
          /\ n_pc[n] = "terminal" /\ n_pc'[n] # "terminal"
               => /\ dlq_emails' = <<v>> \o dlq_emails
                  /\ UNCHANGED q_emails
                  /\ n_pc'[n] = "finally"
          /\ (q_emails' # q_emails /\ Len(q_emails') > Len(q_emails))
               => \E m \in Notifiers : n_pc[m] = "retry" /\ n_pc'[m] = "finally"
          /\ dlq_emails' # dlq_emails
               => \E m \in Notifiers : n_pc[m] = "terminal" /\ n_pc'[m] = "finally"]_vars

\* the fourth exception of a 'ready' video's notification was dead-lettered
\* and the video is still 'ready'
EmailDeadLettered ==
  /\ dlq_emails = <<"v1">>
  /\ email_attempts["v1"] = Len(worker_backoff_seconds) + 1
  /\ videos["v1"].status = "ready"

\* C34: when a video was deleted while a run for it was in flight, then
\* once the run and its retries have finished no object under hls/{v}/ or
\* thumbs/{v}/ exists and no asset row refers to the video.
DeleteLeavesNothing ==
  \A v \in Videos :
    (/\ ndelete > 0 /\ del_pc[v] = "idle" /\ ~Exists(v)
     /\ \A w \in Workers : Vid(w) # v
     /\ \A i \in 1..Len(q_videos) : q_videos[i].video_id # v)
      => /\ objects[v] \cap (RequiredObjects \cup {"seg720", "seg480"}) = {}
         /\ assets[v] = {}

\* the canonical names a result names
Named(res) == {res[i].key : i \in DOMAIN res} \ {""}

CatalogRaceResolved ==
  LET shared == (Named(args.res["r1"]) \cap Named(args.res["r2"]))
                  \ args.catalog
  IN (shared # {} /\ \A r \in PersistRuns : result.tx[r].at \in {"done", "failed"})
       => /\ \A r \in PersistRuns : result.tx[r].at = "done"
          /\ \A k \in shared :
               /\ k \in result.catalog
               /\ \A r \in PersistRuns :
                    \E l \in result.links : l.video = VideoOf[r] /\ l.key = k

\* C37: in every run in which persist_result succeeded, with the graph and
\* the search service available, by the end of the run the graph store has
\* the Video node with an edge for each persisted item at or above the
\* insert threshold, and the video's document in the videos index has been
\* rewritten with its nested topics, entities and tags.
SideEffectsFollowPersist ==
  result.at = "done" /\ result.persisted
    => /\ result.graph.video
       /\ result.graph.edges
            = {r \in result.rows : r.weight >= neo4j_prominence_insert_th}
       /\ "nested" \in result.doc

\* C38: when one lane's shortlist is shorter than its quota the other
\* lane's take is its quota plus the shortfall, or its whole shortlist when
\* that is smaller, so that for all shortlist lengths the blended pool has
\* exactly min(OS_LANE_QUOTA + GRAPH_LANE_QUOTA, os_available +
\* graph_available) items, also when both lanes are short.
BackfillExact ==
  result.at \in {"mmr", "done"}
    => /\ result.os_selected + result.graph_selected
            = min(OS_LANE_QUOTA + GRAPH_LANE_QUOTA,
                  args.os_available + args.graph_available)
       /\ args.os_available < OS_LANE_QUOTA
            => result.graph_selected
                 = min(GRAPH_LANE_QUOTA + (OS_LANE_QUOTA - args.os_available),
                       args.graph_available)
       /\ (args.os_available >= OS_LANE_QUOTA
             /\ args.graph_available < GRAPH_LANE_QUOTA)
            => result.os_selected
                 = min(OS_LANE_QUOTA + (GRAPH_LANE_QUOTA - args.graph_available),
                       args.os_available)

\* the graph lane delivered 10 of its 30 and the OS lane had 80: all 80
\* were taken and the pool has the 90 items there are
BackfillFromOsLane ==
  /\ result.at = "mmr"
  /\ args.os_available = 80 /\ args.graph_available = 10
  /\ result.os_selected = 80 /\ result.graph_selected = 10

\* C39: the video_ids returned by get_recommendations hold no id twice: the
\* graph candidates are outside the seed history and outside the OS
\* shortlist, neither shortlist repeats an id, and os_count + graph_count is
\* the length of video_ids.
NoIdTwice(q) == \A i, j \in 1..Len(q) : q[i] = q[j] => i = j

FinalIdsDistinct ==
  /\ result.at \in {"blend", "done"} =>
       /\ NoIdTwice(result.os_shortlist)
       /\ NoIdTwice(result.graph_candidates)
       /\ NoIdTwice(result.graph_shortlist)
       /\ ListIds(result.graph_candidates)
            \cap (args.history \cup ListIds(result.os_shortlist)) = {}
  /\ result.at = "done" =>
       /\ NoIdTwice(result.video_ids)
       /\ result.os_count + result.graph_count = Len(result.video_ids)

\* both lanes are in the final list and a walk row named a video of the OS
\* shortlist
BothLanesAfterExclusion ==
  /\ result.at = "done"
  /\ result.os_count >= 1
  /\ result.graph_count >= 1
  /\ ListIds(args.walk_rows) \cap ListIds(result.os_shortlist) # {}

\* C40: a query that created a projection has dropped that projection by
\* the time _graph_random_walk_stream returns, on the success path and on
\* the exception paths; and no query drops, fails on, or walks a projection
\* that another query created.
ProjectionsPrivate ==
  \A q \in WalkQueries :
    /\ (result.q[q].at = "returned" /\ result.q[q].created)
         => result.q[q].dropped = q
    /\ result.q[q].dropped \in {None, q}
    /\ result.q[q].failed_on \in {None, q}
    /\ result.q[q].walked \in {None, q}
    /\ ~result.q[q].lost
====
